---- MODULE Spec2Model ----
(***************************************************************************)
(* The submission ledger and claim coordinator of the grading backend      *)
(* (src-tauri/src/grading.rs, src-tauri/src/submissions.rs).               *)
(*                                                                         *)
(* Every tauri command is an async fn that runs its SQL statements one     *)
(* after the other against a pool of connections (db.rs: max_connections   *)
(* 5), each statement in autocommit mode.  Commands of different clients   *)
(* therefore interleave between statements.  A command is modelled as a    *)
(* chain of actions, one per store statement; the Rust code between two    *)
(* statements is local and is folded into the statement before it.         *)
(***************************************************************************)
EXTENDS Integers, Sequences, FiniteSets, TLC

VARIABLES
    subs,     \* table submissions: id -> row
    audit,    \* table audit_log, in insertion order (id = position)
    cache,    \* the files and directories under app_data_dir (and wherever else
              \* extraction wrote): records at, kind, size, text
    now,      \* the store's CURRENT_TIMESTAMP
    call,     \* per client: the command it is running and that command's locals
    faults    \* statements the store has refused so far

vars == <<subs, audit, cache, now, call, faults>>

----------------------------------------------------------------------------
(* Bounds *)

MaxAudit == 2     \* audit rows the log can hold
MaxTime == 1      \* last tick of the clock
MaxFaults == 1    \* statements the store refuses
MaxBatch == 2     \* archives in one call of process_submissions
MaxSubs == 2      \* rows the ledger can hold when batches are ingested
MaxEntries == 2   \* entries of an archive given to validate_zip

----------------------------------------------------------------------------
(* Values *)

NULL == "NULL"            \* SQL NULL, Rust None
NullTs == 0 - 1           \* a NULL timestamp column

Clients == {"k1", "k2"}   \* concurrent invocations
Actors == {"taA", "taB"}  \* ta_id arguments

SubIds == {"s1"}          \* the ids ingestion hands out (uuid v4: never seen before)
NoSuchId == "s0"          \* an id that names no submission

ValidStatus == {"unstarted", "in_progress", "done", "flagged", "error"}
StatusArgs == ValidStatus \cup {"bogus"}
StatusActors == {NULL}    \* update_submission_status takes Option<String>; here None

\* assignments.course_id; an assignment id with no row has no course
AssignmentIds == {"a1", "a2"}
AssignmentCourse(a) == IF a = "a1" THEN "c1" ELSE NULL

\* table students
Students == {[course_id |-> "c1", student_id |-> "12345678"]}
StudentArgs == {"12345678", "99999999"}
Reasons == {"corrupt"}

NoDetails == [k |-> NULL, v |-> NULL]
Details(key, val) == [k |-> key, v |-> val]

----------------------------------------------------------------------------
(* The command a client runs *)

IdleCall ==
    [pc |-> "idle", op |-> "none", sid |-> NULL, ta |-> NULL, arg |-> NULL,
     seen |-> NULL, res |-> "none", todo |-> <<>>, out |-> <<>>,
     pre |-> <<>>, preLog |-> <<>>, wrote |-> 0, logged |-> 0, ran |-> FALSE,
     left |-> <<>>, over |-> NULL]

\* The row of submission s as a 0- or 1-element sequence (fetch_optional).
RowOf(s) == IF s \in DOMAIN subs THEN <<subs[s]>> ELSE <<>>

\* SELECT claimed_by_ta_id FROM submissions WHERE id = ? ... .flatten()
CurrentClaim(s) == IF s \in DOMAIN subs THEN subs[s].claimed_by_ta_id ELSE NULL

\* submission_id arguments: the id of a row of the ledger, or of none.
SidArgs == DOMAIN subs \cup {NoSuchId}

\* A command enters with the state it found recorded (pre, preLog).
Enter(o, s, t, a) ==
    [IdleCall EXCEPT !.op = o, !.sid = s, !.ta = t, !.arg = a,
                     !.pre = RowOf(s), !.preLog = audit]

\* Client k's command moves to record c.  Handing the result back to the
\* client touches nothing shared, so a finished command returns (Return) before
\* any command takes its next statement.
Step(k, c) ==
    /\ \A q \in Clients : call[q].pc # "done"
    /\ call' = [call EXCEPT ![k] = c]
    /\ UNCHANGED faults

\* Commands that have begun and may still insert an audit row.
InFlight == {q \in Clients : call[q].pc \notin {"idle", "done"} /\ call[q].op # "ingest"}
CanBegin(k) ==
    /\ call[k].pc = "idle"
    /\ Len(audit) + Cardinality(InFlight) < MaxAudit

\* UPDATE submissions SET ... WHERE id = s: the row becomes row; no row, no change.
UpdateRow(s, row) == IF s \in DOMAIN subs THEN [subs EXCEPT ![s] = row] ELSE subs

\* The id the store gives a new audit row: the INSERT names no id, the column
\* default is the table's (audit_log.id, read back as i64); rows are never
\* deleted, so the next integer key is the number of rows plus one.
NextAuditId == Len(audit) + 1

\* Slip: the newest row is written over instead of a row being added.
log_audit_internal_Replaces(ta_id, action, entity_type, entity_id, details) ==
    LET e == [id |-> NextAuditId, ts |-> now, ta_id |-> ta_id,
              action |-> action, entity_type |-> entity_type,
              entity_id |-> entity_id, details |-> details]
    IN  IF audit = <<>> THEN <<e>> ELSE [audit EXCEPT ![Len(audit)] = e]

\* log_audit_internal: INSERT INTO audit_log (...); id and ts are column defaults.
log_audit_internal(ta_id, action, entity_type, entity_id, details) ==
    Append(audit, [id |-> NextAuditId, ts |-> now, ta_id |-> ta_id,
                   action |-> action, entity_type |-> entity_type,
                   entity_id |-> entity_id, details |-> details])

----------------------------------------------------------------------------
(* claim_submission *)

\* Slip: a submission held by another actor is taken over instead of refused.
ClaimCheck_Overwrites(c) ==
    IF c.seen # NULL /\ c.seen = c.ta
    THEN [c EXCEPT !.pc = "done", !.res = "ok"]
    ELSE [c EXCEPT !.pc = "claim_update"]

\* Slip: the owner's own repeated claim is written and logged again.
ClaimCheck_Reclaims(c) ==
    IF c.seen # NULL /\ c.seen # c.ta
    THEN [c EXCEPT !.pc = "done", !.res = "err_already_claimed"]
    ELSE [c EXCEPT !.pc = "claim_update"]

\* The outcome of the ownership check on the owner that was read.
ClaimCheck(c) ==
    IF c.seen # NULL
    THEN IF c.seen # c.ta
         THEN [c EXCEPT !.pc = "done", !.res = "err_already_claimed"]
         ELSE [c EXCEPT !.pc = "done", !.res = "ok"]
    ELSE [c EXCEPT !.pc = "claim_update"]

ClaimSelect(k) ==
    /\ CanBegin(k)
    /\ \E s \in SidArgs, t \in Actors :
          Step(k, ClaimCheck([Enter("claim", s, t, NULL) EXCEPT !.seen = CurrentClaim(s)]))
    /\ UNCHANGED <<subs, audit, cache, now>>

\* Slip: the claim forgets to move the submission to in_progress.
ClaimedRow_KeepsStatus(row, t) == [row EXCEPT !.claimed_by_ta_id = t, !.claimed_at = now]

ClaimedRow(row, t) ==
    [row EXCEPT !.claimed_by_ta_id = t, !.claimed_at = now, !.status = "in_progress"]

ClaimUpdate(k) ==
    /\ call[k].pc = "claim_update"
    /\ subs' = UpdateRow(call[k].sid, ClaimedRow(subs[call[k].sid], call[k].ta))
    /\ Step(k, [call[k] EXCEPT !.pc = "claim_audit", !.wrote = @ + 1])
    /\ UNCHANGED <<audit, cache, now>>

ClaimAudit(k) ==
    /\ call[k].pc = "claim_audit"
    /\ audit' = log_audit_internal(call[k].ta, "claim", "submission", call[k].sid, NoDetails)
    /\ Step(k, [call[k] EXCEPT !.pc = "done", !.res = "ok", !.logged = @ + 1])
    /\ UNCHANGED <<subs, cache, now>>

----------------------------------------------------------------------------
(* release_submission *)

\* Slip: the ownership test is left out.
ReleaseCheck_NoOwnerTest(c) == [c EXCEPT !.pc = "release_update"]

ReleaseCheck(c) ==
    IF c.seen # NULL /\ c.seen # c.ta
    THEN [c EXCEPT !.pc = "done", !.res = "err_not_owner"]
    ELSE [c EXCEPT !.pc = "release_update"]

ReleaseSelect(k) ==
    /\ CanBegin(k)
    /\ \E s \in SidArgs, t \in Actors :
          Step(k, ReleaseCheck([Enter("release", s, t, NULL) EXCEPT !.seen = CurrentClaim(s)]))
    /\ UNCHANGED <<subs, audit, cache, now>>

\* Slip: release also resets the status.
ReleasedRow_ResetsStatus(row) ==
    [row EXCEPT !.claimed_by_ta_id = NULL, !.claimed_at = NullTs, !.status = "unstarted"]

\* Slip: release clears the owner and leaves the time of the claim.
ReleasedRow_KeepsClaimedAt(row) == [row EXCEPT !.claimed_by_ta_id = NULL]

ReleasedRow(row) == [row EXCEPT !.claimed_by_ta_id = NULL, !.claimed_at = NullTs]

ReleaseUpdate(k) ==
    /\ call[k].pc = "release_update"
    /\ subs' = UpdateRow(call[k].sid, ReleasedRow(subs[call[k].sid]))
    /\ Step(k, [call[k] EXCEPT !.pc = "release_audit", !.wrote = @ + 1])
    /\ UNCHANGED <<audit, cache, now>>

ReleaseAudit(k) ==
    /\ call[k].pc = "release_audit"
    /\ audit' = log_audit_internal(call[k].ta, "release", "submission", call[k].sid, NoDetails)
    /\ Step(k, [call[k] EXCEPT !.pc = "done", !.res = "ok", !.logged = @ + 1])
    /\ UNCHANGED <<subs, cache, now>>

----------------------------------------------------------------------------
(* force_claim_submission *)

ForceSelect(k) ==
    /\ CanBegin(k)
    /\ \E s \in SidArgs, t \in Actors :
          Step(k, [Enter("force_claim", s, t, NULL) EXCEPT
                      !.seen = CurrentClaim(s), !.pc = "force_update"])
    /\ UNCHANGED <<subs, audit, cache, now>>

ForcedRow(row, t) == [row EXCEPT !.claimed_by_ta_id = t, !.claimed_at = now]

ForceUpdate(k) ==
    /\ call[k].pc = "force_update"
    /\ subs' = UpdateRow(call[k].sid, ForcedRow(subs[call[k].sid], call[k].ta))
    /\ Step(k, [call[k] EXCEPT !.pc = "force_audit", !.wrote = @ + 1,
                               !.over = CurrentClaim(call[k].sid)])
    /\ UNCHANGED <<audit, cache, now>>

\* Slip: the audit detail is filled from the row after the overwrite.
ForceAudit_LogsNewOwner(k) ==
    /\ call[k].pc = "force_audit"
    /\ audit' = log_audit_internal(call[k].ta, "force_claim", "submission", call[k].sid,
                                   Details("previous_ta", CurrentClaim(call[k].sid)))
    /\ Step(k, [call[k] EXCEPT !.pc = "done", !.res = "ok", !.logged = @ + 1])
    /\ UNCHANGED <<subs, cache, now>>

ForceAudit(k) ==
    /\ call[k].pc = "force_audit"
    /\ audit' = log_audit_internal(call[k].ta, "force_claim", "submission", call[k].sid,
                                   Details("previous_ta", call[k].seen))
    /\ Step(k, [call[k] EXCEPT !.pc = "done", !.res = "ok", !.logged = @ + 1])
    /\ UNCHANGED <<subs, cache, now>>

----------------------------------------------------------------------------
(* update_submission_status; ta_id is Option<String> *)

\* Slip: the status is written first and validated afterwards.
StatusInvalid_WritesFirst(k) ==
    /\ call[k].pc = "idle"
    /\ \E s \in SidArgs, t \in StatusActors, v \in StatusArgs \ ValidStatus :
          /\ subs' = UpdateRow(s, [subs[s] EXCEPT !.status = v])
          /\ Step(k, [Enter("update_status", s, t, v) EXCEPT
                         !.pc = "done", !.res = "err_invalid_status", !.wrote = 1])
    /\ UNCHANGED <<audit, cache, now>>

StatusInvalid(k) ==
    /\ call[k].pc = "idle"
    /\ \E s \in SidArgs, t \in StatusActors, v \in StatusArgs \ ValidStatus :
          Step(k, [Enter("update_status", s, t, v) EXCEPT
                      !.pc = "done", !.res = "err_invalid_status"])
    /\ UNCHANGED <<subs, audit, cache, now>>

StatusRow(row, v) == [row EXCEPT !.status = v]

StatusUpdate(k) ==
    /\ CanBegin(k)
    /\ \E s \in SidArgs, t \in StatusActors, v \in ValidStatus :
          /\ subs' = UpdateRow(s, StatusRow(subs[s], v))
          /\ Step(k, [Enter("update_status", s, t, v) EXCEPT
                         !.pc = "status_audit", !.wrote = 1])
    /\ UNCHANGED <<audit, cache, now>>

\* The same call with ta_id = Some(t).
StatusUpdateNamed(k) ==
    /\ CanBegin(k)
    /\ \E s \in SidArgs, t \in Actors, v \in ValidStatus :
          /\ subs' = UpdateRow(s, StatusRow(subs[s], v))
          /\ Step(k, [Enter("update_status", s, t, v) EXCEPT
                         !.pc = "status_audit", !.wrote = 1])
    /\ UNCHANGED <<audit, cache, now>>

\* Slip: the entry is logged without the actor.
StatusAudit_DropsActor(k) ==
    /\ call[k].pc = "status_audit"
    /\ audit' = log_audit_internal(NULL, "status_change", "submission", call[k].sid,
                                   Details("new_status", call[k].arg))
    /\ Step(k, [call[k] EXCEPT !.pc = "done", !.res = "ok", !.logged = @ + 1])
    /\ UNCHANGED <<subs, cache, now>>

StatusAudit(k) ==
    /\ call[k].pc = "status_audit"
    /\ audit' = log_audit_internal(call[k].ta, "status_change", "submission", call[k].sid,
                                   Details("new_status", call[k].arg))
    /\ Step(k, [call[k] EXCEPT !.pc = "done", !.res = "ok", !.logged = @ + 1])
    /\ UNCHANGED <<subs, cache, now>>

----------------------------------------------------------------------------
(* manual_match_submission *)

\* SELECT a.course_id FROM submissions s JOIN assignments a ... WHERE s.id = ?
CourseOfSubmission(s) ==
    IF s \in DOMAIN subs THEN AssignmentCourse(subs[s].assignment_id) ELSE NULL

\* SELECT 1 FROM students WHERE course_id = ? AND student_id = ?
StudentExists(cid, sid) == [course_id |-> cid, student_id |-> sid] \in Students

\* The two lookups; the roster and the assignments do not change here, so the
\* second lookup reads what it would read at any later moment.
MatchCheck(c) ==
    IF c.seen = NULL
    THEN [c EXCEPT !.pc = "done", !.res = "err_not_found"]
    ELSE IF ~StudentExists(c.seen, c.arg)
         THEN [c EXCEPT !.pc = "done", !.res = "err_unknown_student"]
         ELSE [c EXCEPT !.pc = "match_update"]

MatchSelect(k) ==
    /\ CanBegin(k)
    /\ \E s \in SidArgs, t \in Actors, sid \in StudentArgs :
          Step(k, MatchCheck([Enter("manual_match", s, t, sid) EXCEPT
                                 !.seen = CourseOfSubmission(s)]))
    /\ UNCHANGED <<subs, audit, cache, now>>

\* Slip: the manual match also moves the submission to the Matched status.
MatchedRow_MarksMatched(row, sid) ==
    [row EXCEPT !.student_id = sid, !.match_method = "manual", !.match_confidence = "1.0",
                !.status = "Matched"]

MatchedRow(row, sid) ==
    [row EXCEPT !.student_id = sid, !.match_method = "manual", !.match_confidence = "1.0"]

MatchUpdate(k) ==
    /\ call[k].pc = "match_update"
    /\ subs' = UpdateRow(call[k].sid, MatchedRow(subs[call[k].sid], call[k].arg))
    /\ Step(k, [call[k] EXCEPT !.pc = "match_audit", !.wrote = @ + 1])
    /\ UNCHANGED <<audit, cache, now>>

MatchAudit(k) ==
    /\ call[k].pc = "match_audit"
    /\ audit' = log_audit_internal(call[k].ta, "manual_match", "submission", call[k].sid,
                                   Details("student_id", call[k].arg))
    /\ Step(k, [call[k] EXCEPT !.pc = "done", !.res = "ok", !.logged = @ + 1])
    /\ UNCHANGED <<subs, cache, now>>

----------------------------------------------------------------------------
(* quarantine_submission *)

\* Slip: the reason is not stored.
QuarantinedRow_DropsReason(row, reason) == [row EXCEPT !.status = "error"]

QuarantinedRow(row, reason) == [row EXCEPT !.status = "error", !.notes = reason]

\* Slip: quarantine removes the row instead of marking it.
QuarantineUpdate_DeletesRow(k) ==
    /\ CanBegin(k)
    /\ \E s \in SidArgs, t \in Actors, r \in Reasons :
          /\ subs' = [x \in DOMAIN subs \ {s} |-> subs[x]]
          /\ Step(k, [Enter("quarantine", s, t, r) EXCEPT
                         !.pc = "quarantine_audit", !.wrote = 1])
    /\ UNCHANGED <<audit, cache, now>>

QuarantineUpdate(k) ==
    /\ CanBegin(k)
    /\ \E s \in SidArgs, t \in Actors, r \in Reasons :
          /\ subs' = UpdateRow(s, QuarantinedRow(subs[s], r))
          /\ Step(k, [Enter("quarantine", s, t, r) EXCEPT
                         !.pc = "quarantine_audit", !.wrote = 1])
    /\ UNCHANGED <<audit, cache, now>>

QuarantineAudit(k) ==
    /\ call[k].pc = "quarantine_audit"
    /\ audit' = log_audit_internal(call[k].ta, "quarantine", "submission", call[k].sid,
                                   Details("reason", call[k].arg))
    /\ Step(k, [call[k] EXCEPT !.pc = "done", !.res = "ok", !.logged = @ + 1])
    /\ UNCHANGED <<subs, cache, now>>

----------------------------------------------------------------------------
(* get_audit_log(limit: i32) *)

Limits == {0 - 1, 0, 1, 2}

\* ORDER BY ts DESC: the orders in which the store may hand out the rows of
\* log.  Rows of equal ts come in an order the statement does not fix.
TsDescOrders(log) ==
    {p \in [1..Len(log) -> 1..Len(log)] :
        /\ \A i, j \in 1..Len(log) : i # j => p[i] # p[j]
        /\ \A i, j \in 1..Len(log) : i < j => log[p[i]].ts >= log[p[j]].ts}

\* LIMIT n over total rows; a negative LIMIT is no limit.
LimitRows(n, total) == IF n < 0 \/ n > total THEN total ELSE n

\* The rows fetched, each turned into a JSON object of the same seven fields.
AuditRows(p, n) == [i \in 1..LimitRows(n, Len(audit)) |-> audit[p[i]]]

GetAuditLog(k) ==
    /\ call[k].pc = "idle"
    /\ \E n \in Limits, p \in TsDescOrders(audit) :
          Step(k, [Enter("get_audit", NULL, NULL, n) EXCEPT
                      !.pc = "done", !.res = "ok", !.out = AuditRows(p, n)])
    /\ UNCHANGED <<subs, audit, cache, now>>

----------------------------------------------------------------------------
(* touch_submission, save_session_bookmark, get_session_bookmark,           *)
(* get_last_session_bookmark                                                *)

QuestionIndexes == {0, 1}

\* json!({assignment_id, submission_id, question_index})
BookmarkDetails(a, s, q) == [assignment_id |-> a, submission_id |-> s, question_index |-> q]

\* SessionBookmark / EnhancedSessionBookmark, as far as the caller reads them
Bookmark(s, q) == [submission_id |-> s, question_index |-> q]

TouchedRow(row) == [row EXCEPT !.last_opened_at = now]

TouchSubmission(k) ==
    /\ call[k].pc = "idle"
    /\ \E s \in SidArgs :
          /\ subs' = UpdateRow(s, TouchedRow(subs[s]))
          /\ Step(k, [Enter("touch", s, NULL, NULL) EXCEPT
                         !.pc = "done", !.res = "ok", !.wrote = 1])
    /\ UNCHANGED <<audit, cache, now>>

\* save_session_bookmark: the audit row first,
SaveBookmarkLog(k) ==
    /\ CanBegin(k)
    /\ \E t \in Actors, a \in AssignmentIds, s \in SidArgs, q \in QuestionIndexes :
          /\ audit' = log_audit_internal(t, "session_bookmark", "session", a,
                                         BookmarkDetails(a, s, q))
          /\ Step(k, [Enter("save_bookmark", s, t, a) EXCEPT
                         !.pc = "bookmark_touch", !.logged = 1])
    /\ UNCHANGED <<subs, cache, now>>

\* then the touch of the submission.
SaveBookmarkTouch(k) ==
    /\ call[k].pc = "bookmark_touch"
    /\ subs' = UpdateRow(call[k].sid, TouchedRow(subs[call[k].sid]))
    /\ Step(k, [call[k] EXCEPT !.pc = "done", !.res = "ok", !.wrote = @ + 1])
    /\ UNCHANGED <<audit, cache, now>>

\* SELECT sub.id ... WHERE assignment_id = ? AND claimed_by_ta_id = ? AND
\* status = 'in_progress' ORDER BY last_opened_at DESC LIMIT 1: the ids the
\* store may return (NULL: no row).  A NULL last_opened_at sorts last.
InProgressOf(t, a) ==
    {s \in DOMAIN subs : /\ subs[s].assignment_id = a
                         /\ subs[s].claimed_by_ta_id = t
                         /\ subs[s].status = "in_progress"}

LastOpened(t, a) ==
    IF InProgressOf(t, a) = {} THEN {NULL}
    ELSE {s \in InProgressOf(t, a) :
             \A x \in InProgressOf(t, a) : subs[s].last_opened_at >= subs[x].last_opened_at}

GetSessionBookmark(k) ==
    /\ call[k].pc = "idle"
    /\ \E t \in Actors, a \in AssignmentIds : \E s \in LastOpened(t, a) :
          Step(k, [Enter("get_bookmark", NULL, t, a) EXCEPT
                      !.pc = "done", !.res = "ok", !.out = <<Bookmark(s, 0)>>])
    /\ UNCHANGED <<subs, audit, cache, now>>

\* SELECT entity_id, details_json FROM audit_log WHERE ta_id = ? AND action =
\* 'session_bookmark' AND entity_id = ? ORDER BY ts DESC LIMIT 1: the rows the
\* store may return, by position in the log.
BookmarkRows(t, a) ==
    {i \in 1..Len(audit) : /\ audit[i].ta_id = t
                           /\ audit[i].action = "session_bookmark"
                           /\ audit[i].entity_id = a}

LastBookmarkRows(t, a) ==
    {i \in BookmarkRows(t, a) : \A j \in BookmarkRows(t, a) : audit[i].ts >= audit[j].ts}

\* get_last_session_bookmark: a row found is parsed and returned,
GetLastBookmarkFound(k) ==
    /\ call[k].pc = "idle"
    /\ \E t \in Actors, a \in AssignmentIds : \E i \in LastBookmarkRows(t, a) :
          Step(k, [Enter("get_last_bookmark", NULL, t, a) EXCEPT
                      !.pc = "done", !.res = "ok",
                      !.out = <<Bookmark(audit[i].details.submission_id,
                                         audit[i].details.question_index)>>])
    /\ UNCHANGED <<subs, audit, cache, now>>

\* no row found leads on to the basic bookmark,
GetLastBookmarkNone(k) ==
    /\ call[k].pc = "idle"
    /\ \E t \in Actors, a \in AssignmentIds :
          /\ BookmarkRows(t, a) = {}
          /\ Step(k, [Enter("get_last_bookmark", NULL, t, a) EXCEPT !.pc = "bookmark_basic"])
    /\ UNCHANGED <<subs, audit, cache, now>>

\* which is get_session_bookmark's query, question_index 0.
GetLastBookmarkBasic(k) ==
    /\ call[k].pc = "bookmark_basic"
    /\ \E s \in LastOpened(call[k].ta, call[k].arg) :
          Step(k, [call[k] EXCEPT !.pc = "done", !.res = "ok", !.out = <<Bookmark(s, 0)>>])
    /\ UNCHANGED <<subs, audit, cache, now>>

----------------------------------------------------------------------------
(* The limits on unpacked size (validate_zip) *)

BombRatio == 100              \* unpacked size over packed size
SizeCeiling == 1000000000     \* unpacked bytes

----------------------------------------------------------------------------
(* Text: file names and file contents, character by character *)

\* How the strings that occur are spelled.
Spell ==
    "" :> <<>> @@
    "12345678" :> <<"1", "2", "3", "4", "5", "6", "7", "8">> @@
    "99999999" :> <<"9", "9", "9", "9", "9", "9", "9", "9">> @@
    "12345678\n" :> <<"1", "2", "3", "4", "5", "6", "7", "8", "\n">> @@
    "id 12345678\n" :> <<"i", "d", " ", "1", "2", "3", "4", "5", "6", "7", "8", "\n">> @@
    "id 12345678" :> <<"i", "d", " ", "1", "2", "3", "4", "5", "6", "7", "8">> @@
    "noted.zip" :> <<"n", "o", "t", "e", "d", ".", "z", "i", "p">> @@
    "12345678_hw1.zip" :> <<"1", "2", "3", "4", "5", "6", "7", "8", "_", "h", "w", "1", ".", "z", "i", "p">> @@
    "hw1_submission.zip" :> <<"h", "w", "1", "_", "s", "u", "b", "m", "i", "s", "s", "i", "o", "n", ".", "z", "i", "p">> @@
    "broken.zip" :> <<"b", "r", "o", "k", "e", "n", ".", "z", "i", "p">> @@
    "copy_of_hw1.zip" :> <<"c", "o", "p", "y", "_", "o", "f", "_", "h", "w", "1", ".", "z", "i", "p">> @@
    "late.zip" :> <<"l", "a", "t", "e", ".", "z", "i", "p">> @@
    "99999999_12345678.zip" :> <<"9", "9", "9", "9", "9", "9", "9", "9", "_", "1", "2", "3", "4", "5", "6", "7", "8", ".", "z", "i", "p">> @@
    "torn.zip" :> <<"t", "o", "r", "n", ".", "z", "i", "p">> @@
    "bomb.zip" :> <<"b", "o", "m", "b", ".", "z", "i", "p">> @@
    "slip.zip" :> <<"s", "l", "i", "p", ".", "z", "i", "p">> @@
    ".." :> <<".", ".">> @@
    "missing.zip" :> <<"m", "i", "s", "s", "i", "n", "g", ".", "z", "i", "p">>

\* The string that is spelled chars.
Unspell(chars) == CHOOSE str \in DOMAIN Spell : Spell[str] = chars

IsDigit(ch) == ch \in {"0", "1", "2", "3", "4", "5", "6", "7", "8", "9"}
IsSpace(ch) == ch \in {" ", "\n", "\t", "\r"}

IdLen == 8     \* \d{8}

\* Where (\d{8}) matches in chars: the positions at which 8 digits begin.
MatchStarts(chars) ==
    {i \in 1 .. Len(chars) - IdLen + 1 : \A j \in i .. i + IdLen - 1 : IsDigit(chars[j])}

\* id_regex.is_match
IsMatch(chars) == MatchStarts(chars) # {}

\* id_regex.captures(..).get(1): the leftmost match.
FirstCapture(chars) ==
    LET i == CHOOSE m \in MatchStarts(chars) : \A n \in MatchStarts(chars) : m <= n
    IN  SubSeq(chars, i, i + IdLen - 1)

\* str::trim: white space is taken off at both ends.
RECURSIVE TrimStart(_)
TrimStart(chars) ==
    IF chars # <<>> /\ IsSpace(Head(chars)) THEN TrimStart(Tail(chars)) ELSE chars
RECURSIVE TrimEnd(_)
TrimEnd(chars) ==
    IF chars # <<>> /\ IsSpace(chars[Len(chars)])
    THEN TrimEnd(SubSeq(chars, 1, Len(chars) - 1)) ELSE chars
Trim(chars) == TrimEnd(TrimStart(chars))

----------------------------------------------------------------------------
(* The file system: paths are sequences of components *)

\* cache_dir.join(hash), cache_dir = app_data_dir/cache/<assignment_id>
CacheDir(a, digest) == <<"cache", a, digest>>

IsPrefix(p, q) == Len(p) <= Len(q) /\ SubSeq(q, 1, Len(p)) = p

\* Path::exists: a directory is there once something was created in or below it.
Exists(p) == \E n \in cache : IsPrefix(p, n.at)

\* Path::join: an absolute name replaces the directory it is joined to.
Join(dir, name) == IF name # <<>> /\ name[1] = "/" THEN name ELSE dir \o name

\* Where the operating system puts a path: "." and ".." are walked.
RECURSIVE Resolve(_)
Resolve(p) ==
    IF p = <<>> THEN <<>>
    ELSE LET r == Resolve(SubSeq(p, 1, Len(p) - 1))
             c == p[Len(p)]
         IN  IF c = ".." THEN (IF Len(r) <= 1 THEN r ELSE SubSeq(r, 1, Len(r) - 1))
             ELSE IF c = "." THEN r
             ELSE Append(r, c)

----------------------------------------------------------------------------
(* extract_zip *)

\* ZipFile::enclosed_name walks the components of the entry name: a root
\* component gives None, ".." takes one level off and gives None below the
\* start, a normal component adds a level.  Depth is the level reached, or
\* -1 for None.
RECURSIVE Depth(_)
Depth(name) ==
    IF name = <<>> THEN 0
    ELSE LET d == Depth(SubSeq(name, 1, Len(name) - 1))
             c == name[Len(name)]
         IN  IF d < 0 \/ c = "/" THEN 0 - 1
             ELSE IF c = ".." THEN d - 1
             ELSE IF c = "." THEN d
             ELSE d + 1

\* Slip: mangled use of the raw entry name, nothing is refused.
Enclosed_AcceptsAll(name) == TRUE

Enclosed(name) == Depth(name) >= 0

Node(at, kind, size, text) == [at |-> at, kind |-> kind, size |-> size, text |-> text]

\* fs::create_dir_all on the first `upto` components of path `to`: the
\* directories on the way that are not there yet (those down to the
\* extraction directory are).
MadeDirs(files, dir, to, upto) ==
    {Node(Resolve(SubSeq(to, 1, i)), "dir", 0, "") : i \in (Len(dir) + 1) .. upto}
        \ {Node(n.at, "dir", 0, "") : n \in files}

\* One turn of the loop over the entries: a name that is not enclosed is
\* skipped; a directory entry is created; a file entry is created (with its
\* parent directories) and the entry's data copied into it.
WriteEntry(files, dir, e) ==
    IF ~Enclosed(e.name) THEN files
    ELSE LET to == Join(dir, e.name)
             at == Resolve(to)
             made == MadeDirs(files, dir, to, IF e.kind = "dir" THEN Len(to) ELSE Len(to) - 1)
         IN  IF e.kind = "dir" THEN files \cup made
             ELSE {n \in files : n.at # at} \cup made \cup {Node(at, "file", e.size, e.text)}

\* The loop: by_index(i)? ends the extraction with an error at the first entry
\* that cannot be read, and leaves what was written before it.
RECURSIVE ExtractEntries(_, _, _)
ExtractEntries(files, dir, es) ==
    IF es = <<>> THEN [files |-> files, ok |-> TRUE, ran |-> TRUE]
    ELSE IF ~Head(es).ok THEN [files |-> files, ok |-> FALSE, ran |-> TRUE]
    ELSE ExtractEntries(WriteEntry(files, dir, Head(es)), dir, Tail(es))

\* File::open(zip_path)?, ZipArchive::new(file)?, then the loop.
extract_zip(ar, dir) ==
    IF ~ar.open_ok THEN [files |-> cache, ok |-> FALSE, ran |-> TRUE]
    ELSE ExtractEntries(cache, dir, ar.entries)

----------------------------------------------------------------------------
(* process_submissions *)

FileEntry(name, size, text) == [name |-> name, kind |-> "file", size |-> size, text |-> text, ok |-> TRUE]
DirEntry(name) == [name |-> name, kind |-> "dir", size |-> 0, text |-> "", ok |-> TRUE]
BadEntry(name) == [name |-> name, kind |-> "file", size |-> 0, text |-> "", ok |-> FALSE]

\* An uploaded archive, by the path it is given under:
\*   has_name   the path has a final component (Path::file_name is Some)
\*   filename   that component
\*   hash_ok    compute_sha256 can read the file;  digest: its SHA-256
\*   packed     the size of the file
\*   open_ok    ZipArchive::new accepts it
\*   entries    its entries, in order
Archive(filename, digest, open_ok, packed, entries) ==
    [has_name |-> TRUE, filename |-> filename, hash_ok |-> TRUE,
     digest |-> digest, open_ok |-> open_ok, packed |-> packed, entries |-> entries]

Archives ==
    {Archive("12345678_hw1.zip", "d1", TRUE, 400,
             <<FileEntry(<<"hw1.txt">>, 900, "")>>),
     Archive("hw1_submission.zip", "d2", TRUE, 400,
             <<FileEntry(<<"hw1.txt">>, 900, "")>>),
     Archive("broken.zip", "d3", FALSE, 400, <<>>)}

Batches == {<<a>> : a \in Archives}

RECURSIVE SumPending(_)
SumPending(K) ==
    IF K = {} THEN 0
    ELSE LET q == CHOOSE x \in K : TRUE
         IN  (IF call[q].op = "ingest" THEN Len(call[q].todo) ELSE 0) + SumPending(K \ {q})

\* cache_dir = app_data_dir/cache/<assignment_id>, created when missing
IngestBegin(k) ==
    /\ call[k].pc = "idle"
    /\ \E a \in AssignmentIds, b \in Batches :
          /\ Cardinality(DOMAIN subs) + SumPending(Clients) + Len(b) <= Cardinality(SubIds)
          /\ Step(k, [Enter("ingest", NULL, NULL, a) EXCEPT !.pc = "ingest_item", !.todo = b])
    /\ UNCHANGED <<subs, audit, cache, now>>

\* uuid::Uuid::new_v4(): an id no row has; which one makes no difference.
SubIdPool == <<"s1", "s2", "s3">>
\* Slip: the id is not new, the first row is written over.
FreshId_Reuses == SubIdPool[1]

FreshId == SubIdPool[Cardinality(DOMAIN subs) + 1]

\* Strategy A: what id_regex captures in the file name, if it matches.
FilenameId(filename) ==
    IF IsMatch(Spell[filename]) THEN Unspell(FirstCapture(Spell[filename])) ELSE NULL

\* What trim() leaves of a sidecar's contents, and whether id_regex matches it.
Trimmed(text) == Unspell(Trim(Spell[text]))
IdRegexMatches(str) == IsMatch(Spell[str])

\* Strategy B: student_id.txt in the extraction directory, when it is there
\* and can be read as a file.
SidecarPath(dir) == dir \o <<"student_id.txt">>
SidecarId(dir) ==
    LET f == {n \in cache' : n.at = SidecarPath(dir) /\ n.kind = "file"}
    IN  IF f = {} THEN NULL
        ELSE LET t == Trimmed((CHOOSE n \in f : TRUE).text)
             IN  IF IdRegexMatches(t) THEN t ELSE NULL

\* Slip: the sidecar is asked first, the filename only when it has nothing.
Candidate_SidecarFirst(ar, dir) ==
    IF SidecarId(dir) # NULL THEN [id |-> SidecarId(dir), read |-> "sidecar"]
    ELSE [id |-> FilenameId(ar.filename), read |-> "sidecar"]

\* Strategy A, and strategy B only when A found nothing.  read: whether
\* student_id.txt was looked for.
Candidate(ar, dir) ==
    IF FilenameId(ar.filename) # NULL THEN [id |-> FilenameId(ar.filename), read |-> NULL]
    ELSE [id |-> SidecarId(dir), read |-> "sidecar"]

\* Strategy C: the roster check, and the student id that is stored
ValidMatch(cid, cand) == cid # NULL /\ cand # NULL /\ StudentExists(cid, cand)
StoredStudent(cid, cand) ==
    IF cid # NULL /\ cand # NULL /\ ~StudentExists(cid, cand) THEN NULL ELSE cand

ProcessResult(filename, status, sid) ==
    [filename |-> filename, status |-> status, student_id |-> sid]

NewRow(a, sid, status, dir) ==
    [assignment_id |-> a, student_id |-> sid, status |-> status, folder_path |-> dir,
     claimed_by_ta_id |-> NULL, claimed_at |-> NullTs, last_opened_at |-> NullTs,
     match_method |-> NULL, match_confidence |-> NULL, notes |-> NULL]

\* The call after one turn of the loop that pushed result o; read: what the
\* turn looked for in the extraction directory; ran: whether it extracted.
AfterItem(c, o, read, ran) ==
    [c EXCEPT !.todo = Tail(c.todo), !.out = Append(c.out, o),
              !.seen = read, !.ran = ran,
              !.pc = IF Tail(c.todo) = <<>> THEN "done" ELSE "ingest_item",
              !.res = IF Tail(c.todo) = <<>> THEN "ok" ELSE c.res]

\* Slip: the archive is extracted again although its directory is there.
Extraction_Always(ar, dir) == [extract_zip(ar, dir) EXCEPT !.ran = TRUE]

\* Step 2 of a turn: the archive is extracted unless its directory is there.
\* ran: whether extract_zip was called.
Extraction(ar, dir) ==
    IF Exists(dir) THEN [files |-> cache, ok |-> TRUE, ran |-> FALSE]
    ELSE [extract_zip(ar, dir) EXCEPT !.ran = TRUE]

\* Client k's command moves to record c (Step, whatever the store refused).
Land(k, c) ==
    /\ \A q \in Clients : call[q].pc # "done"
    /\ call' = [call EXCEPT ![k] = c]

\* Steps 3 and 4 of a turn, on the extraction directory as it is after step 2:
\* the candidate, the roster check, the INSERT, the result.
MatchInsert(k, ar, dir, ran, insert_ok) ==
    LET c == call[k]
        cid == AssignmentCourse(c.arg)
        found == Candidate(ar, dir)
        cand == found.id
        sid == StoredStudent(cid, cand)
        status == IF ValidMatch(cid, cand) THEN "Matched" ELSE "Unmatched"
    IN  IF ~insert_ok
        THEN /\ Land(k, AfterItem(c, ProcessResult(ar.filename, "Error", sid), found.read, ran))
             /\ UNCHANGED subs
        ELSE /\ subs' = [x \in DOMAIN subs \cup {FreshId} |->
                            IF x = FreshId THEN NewRow(c.arg, sid, status, dir)
                            ELSE subs[x]]
             /\ Land(k, [AfterItem(c, ProcessResult(ar.filename, status, sid), found.read, ran)
                            EXCEPT !.wrote = @ + 1])

\* One turn of the loop over file_paths: hash, extract when the directory is
\* not there, match, insert.  insert_ok: whether the INSERT goes through.
IngestTurn(k, insert_ok) ==
    LET c == call[k]
        ar == Head(c.todo)
        dir == CacheDir(c.arg, ar.digest)
        ex == Extraction(ar, dir)
    IN  IF ~ar.has_name
        THEN \* path.file_name().unwrap() panics: the command ends without a result
             /\ Land(k, [c EXCEPT !.pc = "done", !.res = "panic", !.out = <<>>])
             /\ UNCHANGED <<subs, cache>>
        ELSE IF ~ar.hash_ok
        THEN /\ Land(k, AfterItem(c, ProcessResult(ar.filename, "Error", NULL), NULL, FALSE))
             /\ UNCHANGED <<subs, cache>>
        ELSE /\ cache' = ex.files
             /\ IF ~ex.ok
                THEN /\ Land(k, AfterItem(c, ProcessResult(ar.filename, "Error", NULL), NULL, ex.ran))
                     /\ UNCHANGED subs
                ELSE MatchInsert(k, ar, dir, ex.ran, insert_ok)

IngestItem(k) ==
    /\ call[k].pc = "ingest_item"
    /\ IngestTurn(k, TRUE)
    /\ UNCHANGED <<audit, now, faults>>

\* Uploads as they come: a copy of an archive under another name, sidecars,
\* paths that cannot be read or have no final component, an archive whose
\* second entry cannot be read, entries that unpack to far more than the
\* archive's size, and entry names that point out of the directory.
Sidecar(text) == FileEntry(<<"student_id.txt">>, 9, text)
NoNamePath == [Archive("..", "d0", FALSE, 0, <<>>) EXCEPT !.has_name = FALSE]
Unreadable == [Archive("missing.zip", "d0", FALSE, 0, <<>>) EXCEPT !.hash_ok = FALSE]

Uploads ==
    Archives \cup
    {Archive("copy_of_hw1.zip", "d1", TRUE, 400,
             <<FileEntry(<<"hw1.txt">>, 900, "")>>),
     Archive("late.zip", "d4", TRUE, 400,
             <<FileEntry(<<"hw1.txt">>, 900, ""), Sidecar("12345678\n")>>),
     Archive("99999999_12345678.zip", "d5", TRUE, 400,
             <<Sidecar("12345678\n"), FileEntry(<<"hw1.txt">>, 900, "")>>),
     Archive("noted.zip", "d9", TRUE, 400,
             <<FileEntry(<<"hw1.txt">>, 900, ""), Sidecar("id 12345678\n")>>),
     Archive("torn.zip", "d6", TRUE, 400,
             <<FileEntry(<<"hw1.txt">>, 900, ""), BadEntry(<<"student_id.txt">>)>>),
     Archive("bomb.zip", "d7", TRUE, 400,
             <<FileEntry(<<"a.bin">>, 40000, ""), FileEntry(<<"b.bin">>, 1000000001, "")>>),
     Archive("slip.zip", "d8", TRUE, 400,
             <<FileEntry(<<"..", "..", "evil.txt">>, 9, ""),
               FileEntry(<<"/", "etc", "evil.txt">>, 9, ""),
               FileEntry(<<"..", "d8", "back.txt">>, 9, ""),
               FileEntry(<<"src", "..", "hw1.txt">>, 9, ""),
               DirEntry(<<"docs">>),
               FileEntry(<<"docs", ".", "notes.txt">>, 9, "")>>),
     NoNamePath,
     Unreadable}

LongBatches == UNION {[1 .. n -> Uploads] : n \in 1 .. MaxBatch}

\* process_submissions called with any batch of uploads.
IngestBeginLong(k) ==
    /\ call[k].pc = "idle"
    /\ \E a \in AssignmentIds, b \in LongBatches :
          /\ Cardinality(DOMAIN subs) + SumPending(Clients) + Len(b) <= MaxSubs
          /\ Step(k, [Enter("ingest", NULL, NULL, a) EXCEPT !.pc = "ingest_item", !.todo = b])
    /\ UNCHANGED <<subs, audit, cache, now>>

\* fs::create_dir_all(&cache_dir) fails: the call returns that error.
IngestCacheDirFails(k) ==
    /\ call[k].pc = "idle"
    /\ faults < MaxFaults
    /\ faults' = faults + 1
    /\ \E a \in AssignmentIds, b \in LongBatches :
          Land(k, [Enter("ingest", NULL, NULL, a) EXCEPT !.pc = "done", !.res = "err_cache_dir",
                                                         !.todo = b])
    /\ UNCHANGED <<subs, audit, cache, now>>

\* A turn of the loop whose INSERT the store refuses.
IngestItemInsertFails(k) ==
    /\ call[k].pc = "ingest_item"
    /\ Head(call[k].todo).has_name /\ Head(call[k].todo).hash_ok
    /\ Extraction(Head(call[k].todo), CacheDir(call[k].arg, Head(call[k].todo).digest)).ok
    /\ faults < MaxFaults
    /\ faults' = faults + 1
    /\ IngestTurn(k, FALSE)
    /\ UNCHANGED <<audit, now>>

----------------------------------------------------------------------------
(* process_submissions, a turn of the loop taken apart: the file system is    *)
(* shared with other calls and every entry is written on its own             *)

\* Archives that get as far as extraction.
CacheUploads == {ar \in Uploads : ar.has_name /\ ar.hash_ok}

\* process_submissions called with one archive.
IngestBeginOne(k) ==
    /\ call[k].pc = "idle"
    /\ \E a \in AssignmentIds, ar \in CacheUploads :
          /\ Cardinality(DOMAIN subs) + SumPending(Clients) + 1 <= MaxSubs
          /\ Step(k, [Enter("ingest", NULL, NULL, a) EXCEPT !.pc = "ingest_check",
                                                            !.todo = <<ar>>])
    /\ UNCHANGED <<subs, audit, cache, now>>

\* The call after a turn that ended in extraction.
AfterSplit(c, o, read, ran) == [AfterItem(c, o, read, ran) EXCEPT !.left = <<>>]

\* The directory is looked for; when it is not there the archive is opened.
IngestCheck(k) ==
    LET c == call[k]
        ar == Head(c.todo)
        dir == CacheDir(c.arg, ar.digest)
    IN  /\ c.pc = "ingest_check"
        /\ IF Exists(dir) THEN Step(k, [c EXCEPT !.pc = "ingest_match", !.ran = FALSE])
           ELSE IF ~ar.open_ok
           THEN Step(k, AfterSplit(c, ProcessResult(ar.filename, "Error", NULL), NULL, TRUE))
           ELSE IF ar.entries = <<>> THEN Step(k, [c EXCEPT !.pc = "ingest_match", !.ran = TRUE])
           ELSE Step(k, [c EXCEPT !.pc = "ingest_extract", !.ran = TRUE, !.left = ar.entries])
        /\ UNCHANGED <<subs, audit, cache, now>>

\* One turn of the loop of extract_zip.
IngestExtractEntry(k) ==
    LET c == call[k]
        ar == Head(c.todo)
        dir == CacheDir(c.arg, ar.digest)
        e == Head(c.left)
    IN  /\ c.pc = "ingest_extract"
        /\ IF ~e.ok
           THEN /\ Step(k, AfterSplit(c, ProcessResult(ar.filename, "Error", NULL), NULL, TRUE))
                /\ UNCHANGED cache
           ELSE /\ cache' = WriteEntry(cache, dir, e)
                /\ Step(k, [c EXCEPT !.left = Tail(c.left),
                                     !.pc = IF Tail(c.left) = <<>> THEN "ingest_match"
                                            ELSE "ingest_extract"])
        /\ UNCHANGED <<subs, audit, now>>

\* Steps 3 and 4 of the turn.
IngestMatch(k) ==
    LET c == call[k]
        ar == Head(c.todo)
    IN  /\ c.pc = "ingest_match"
        /\ UNCHANGED <<audit, cache, now, faults>>
        /\ MatchInsert(k, ar, CacheDir(c.arg, ar.digest), c.ran, TRUE)

----------------------------------------------------------------------------
(* validate_zip *)

\* total_size is a u64 and the sizes an archive declares go up to 2^64 - 1
\* (zip64).  A u64 is written as four digits to base 2^16, lowest first.
Base == 65536
U64Digits == 4

\* The u64 of a number below 2^31.
U64(n) == <<n % Base, (n \div Base) % Base, 0, 0>>

\* a + b digit by digit from digit i on, with the carry out as one more digit.
RECURSIVE AddFrom(_, _, _, _)
AddFrom(a, b, i, carry) ==
    IF i > Len(a) THEN <<carry>>
    ELSE <<(a[i] + b[i] + carry) % Base>> \o AddFrom(a, b, i + 1, (a[i] + b[i] + carry) \div Base)

\* u64 addition: the digits of the wrapped sum, and whether it overflowed.
WrappingAdd(a, b) == SubSeq(AddFrom(a, b, 1, 0), 1, U64Digits)
Overflows(a, b) == AddFrom(a, b, 1, 0)[U64Digits + 1] # 0

\* a > b, for numbers of equally many digits.
RECURSIVE GreaterFrom(_, _, _)
GreaterFrom(a, b, i) ==
    IF i = 0 THEN FALSE
    ELSE IF a[i] # b[i] THEN a[i] > b[i]
    ELSE GreaterFrom(a, b, i - 1)
Greater(a, b) == GreaterFrom(a, b, Len(a))

\* An entry of the archive's directory: its kind, the size it declares, and
\* whether by_index_raw can read it.
RawEntry(kind, size, raw_ok) == [kind |-> kind, size |-> size, raw_ok |-> raw_ok]

RawEntries ==
    {RawEntry("file", U64(900), TRUE),
     RawEntry("file", U64(40000), TRUE),
     RawEntry("file", U64(1000000001), TRUE),
     RawEntry("file", <<0, 0, 0, 32768>>, TRUE),     \* 2^63
     RawEntry("file", U64(40000), FALSE),
     RawEntry("dir", U64(0), TRUE)}

\* A path given to validate_zip: whether something is there, whether it can
\* be opened, whether ZipArchive::new accepts it, whether its metadata can be
\* read, its size, its entries.
ZipFile(exists, opens, is_zip, meta_ok, packed, entries) ==
    [exists |-> exists, opens |-> opens, is_zip |-> is_zip, meta_ok |-> meta_ok,
     packed |-> packed, entries |-> entries]

PackedSizes == {100, 400}

ValidateInputs ==
    {ZipFile(FALSE, FALSE, FALSE, FALSE, 0, <<>>),
     ZipFile(TRUE, FALSE, FALSE, TRUE, 400, <<>>),
     ZipFile(TRUE, TRUE, FALSE, TRUE, 400, <<>>)}
    \cup {ZipFile(TRUE, TRUE, TRUE, m, pk, es) :
            m \in BOOLEAN, pk \in PackedSizes,
            es \in UNION {[1 .. n -> RawEntries] : n \in 0 .. MaxEntries}}

ZipValidationResult(is_valid, file_count, total_size, is_zip_bomb, error_message) ==
    [is_valid |-> is_valid, file_count |-> file_count, total_size |-> total_size,
     is_zip_bomb |-> is_zip_bomb, error_message |-> error_message]

\* The loop over the entries: total_size += file.size() for every entry that
\* by_index_raw can read.  over: whether an addition overflowed.
RECURSIVE SumSizes(_, _, _)
SumSizes(es, total, over) ==
    IF es = <<>> THEN [total |-> total, over |-> over]
    ELSE IF ~Head(es).raw_ok THEN SumSizes(Tail(es), total, over)
    ELSE SumSizes(Tail(es), WrappingAdd(total, Head(es).size),
                  over \/ Overflows(total, Head(es).size))

\* std::fs::metadata(path).map(|m| m.len()).unwrap_or(1)
CompressedSize(f) == IF f.meta_ok THEN f.packed ELSE 1

\* ratio > 100.0 || total_size > 1_000_000_000.  The ratio is a quotient of
\* f64s; with a packed size below 2^31 it is above 100.0 exactly when
\* total_size > 100 * packed size.
IsZipBomb(total, compressed) ==
    Greater(total, U64(BombRatio * compressed)) \/ Greater(total, U64(SizeCeiling))

\* What validate_zip returns when no addition overflows, or when overflow
\* wraps (release build).
validate_zip(f) ==
    IF ~f.exists THEN ZipValidationResult(FALSE, 0, U64(0), FALSE, "File not found")
    ELSE IF ~f.opens THEN ZipValidationResult(FALSE, 0, U64(0), FALSE, "Cannot open file")
    ELSE IF ~f.is_zip THEN ZipValidationResult(FALSE, 0, U64(0), FALSE, "Invalid ZIP")
    ELSE LET total == SumSizes(f.entries, U64(0), FALSE).total
             bomb == IsZipBomb(total, CompressedSize(f))
         IN  ZipValidationResult(~bomb, Len(f.entries), total, bomb,
                                 IF bomb THEN "Potential zip bomb detected" ELSE NULL)

\* validate_zip on the path the call was given.  `total_size += file.size()`
\* overflowing panics in a build with overflow checks and wraps in one without.
ValidateZip(k) ==
    LET c == call[k]
        f == Head(c.todo)
    IN  /\ c.pc = "validate"
        /\ \/ Step(k, [c EXCEPT !.pc = "done", !.res = "ok", !.out = <<validate_zip(f)>>])
           \/ /\ f.exists /\ f.opens /\ f.is_zip
              /\ SumSizes(f.entries, U64(0), FALSE).over
              /\ Step(k, [c EXCEPT !.pc = "done", !.res = "panic"])
        /\ UNCHANGED <<subs, audit, cache, now>>

----------------------------------------------------------------------------
(* The clock, and a command's return *)

Tick ==
    /\ now < MaxTime
    /\ now' = now + 1
    /\ UNCHANGED <<subs, audit, cache, call, faults>>

Return(k) ==
    /\ call[k].pc = "done"
    /\ call' = [call EXCEPT ![k] = IdleCall]
    /\ UNCHANGED <<subs, audit, cache, now, faults>>

----------------------------------------------------------------------------

Init ==
    /\ subs = <<>>
    /\ audit = <<>>
    /\ cache = {}
    /\ now = 0
    /\ call = [k \in Clients |-> IdleCall]
    /\ faults = 0

Command(k) ==
    \/ ClaimSelect(k)
    \/ ClaimUpdate(k)
    \/ ClaimAudit(k)
    \/ ReleaseSelect(k)
    \/ ReleaseUpdate(k)
    \/ ReleaseAudit(k)
    \/ ForceSelect(k)
    \/ ForceUpdate(k)
    \/ ForceAudit(k)
    \/ StatusInvalid(k)
    \/ StatusUpdate(k)
    \/ StatusAudit(k)
    \/ MatchSelect(k)
    \/ MatchUpdate(k)
    \/ MatchAudit(k)
    \/ QuarantineUpdate(k)
    \/ QuarantineAudit(k)
    \/ IngestBegin(k)
    \/ IngestItem(k)
    \/ Return(k)

\* Commands of different clients interleave statement by statement.
Next ==
    \/ \E k \in Clients : Command(k)
    \/ Tick

Spec == Init /\ [][Next]_vars

\* One command at a time: every command runs from its first statement to its
\* return before the next one begins, as when a single client issues them.
SeqClient == "k1"

NextSeq ==
    \/ Command(SeqClient)
    \/ Tick

SpecSeq == Init /\ [][NextSeq]_vars

\* One command at a time, update_submission_status called with and without actor.
NextNamed ==
    \/ Command(SeqClient)
    \/ StatusUpdateNamed(SeqClient)
    \/ Tick

SpecNamed == Init /\ [][NextNamed]_vars

\* One command at a time, the reads of the audit log and the session
\* bookmarks among them.
NextRead ==
    \/ Command(SeqClient)
    \/ GetAuditLog(SeqClient)
    \/ TouchSubmission(SeqClient)
    \/ SaveBookmarkLog(SeqClient)
    \/ SaveBookmarkTouch(SeqClient)
    \/ GetSessionBookmark(SeqClient)
    \/ GetLastBookmarkFound(SeqClient)
    \/ GetLastBookmarkNone(SeqClient)
    \/ GetLastBookmarkBasic(SeqClient)
    \/ Tick

SpecRead == Init /\ [][NextRead]_vars

----------------------------------------------------------------------------
(* Store failures.  Every statement ends in `.map_err(|e| e.to_string())?`:  *)
(* when the store refuses a statement the command returns that error at     *)
(* once; statements that committed before it stay committed (autocommit).   *)

CoordinatorOps ==
    {"claim", "release", "force_claim", "update_status", "manual_match", "quarantine"}

\* Client k's command ends in record c with the store's error.
Refuse(k, c) ==
    /\ faults < MaxFaults
    /\ faults' = faults + 1
    /\ \A q \in Clients : call[q].pc # "done"
    /\ call' = [call EXCEPT ![k] = [c EXCEPT !.pc = "done", !.res = "err_store"]]

\* The first statement of a command fails (the SELECT of claim, release,
\* force_claim and manual_match; the UPDATE of update_status and quarantine).
FailFirst(k) ==
    /\ call[k].pc = "idle"
    /\ \E o \in CoordinatorOps, s \in SidArgs, t \in Actors :
          Refuse(k, Enter(o, s, t, NULL))
    /\ UNCHANGED <<subs, audit, cache, now>>

\* The UPDATE that follows a SELECT fails.
FailUpdate(k) ==
    /\ call[k].pc \in {"claim_update", "release_update", "force_update", "match_update"}
    /\ Refuse(k, call[k])
    /\ UNCHANGED <<subs, audit, cache, now>>

\* Slip: the INSERT is reported as failed although the row went in.
FailAudit_InsertsAnyway(k) ==
    /\ call[k].pc \in {"claim_audit", "release_audit", "force_audit", "status_audit",
                       "match_audit", "quarantine_audit"}
    /\ audit' = log_audit_internal(call[k].ta, call[k].op, "submission", call[k].sid,
                                   NoDetails)
    /\ Refuse(k, [call[k] EXCEPT !.logged = @ + 1])
    /\ UNCHANGED <<subs, cache, now>>

\* The INSERT of log_audit_internal fails, after the UPDATE before it committed.
FailAudit(k) ==
    /\ call[k].pc \in {"claim_audit", "release_audit", "force_audit", "status_audit",
                       "match_audit", "quarantine_audit"}
    /\ Refuse(k, call[k])
    /\ UNCHANGED <<subs, audit, cache, now>>

\* One command at a time, over a store whose statements can fail.
NextFault ==
    \/ Command(SeqClient)
    \/ FailFirst(SeqClient)
    \/ FailUpdate(SeqClient)
    \/ FailAudit(SeqClient)
    \/ Tick

SpecFault == Init /\ [][NextFault]_vars

\* validate_zip as a function of the file it is given: the call starts with
\* any of the inputs.
InitValidate ==
    /\ subs = <<>>
    /\ audit = <<>>
    /\ cache = {}
    /\ now = 0
    /\ faults = 0
    /\ \E f \in ValidateInputs :
          call = [k \in Clients |->
                    IF k = SeqClient
                    THEN [IdleCall EXCEPT !.op = "validate", !.pc = "validate", !.todo = <<f>>]
                    ELSE IdleCall]

NextValidate ==
    \/ ValidateZip(SeqClient)
    \/ Return(SeqClient)

SpecValidate == InitValidate /\ [][NextValidate]_vars

\* Two calls of process_submissions at once, extraction entry by entry.
NextCache ==
    \/ \E k \in Clients :
          \/ IngestBeginOne(k)
          \/ IngestCheck(k)
          \/ IngestExtractEntry(k)
          \/ IngestMatch(k)
          \/ Return(k)

SpecCache == Init /\ [][NextCache]_vars

\* One call of process_submissions at a time, over batches of uploads and a
\* store and a disk that can fail.
NextIngest ==
    \/ IngestBeginLong(SeqClient)
    \/ IngestCacheDirFails(SeqClient)
    \/ IngestItem(SeqClient)
    \/ IngestItemInsertFails(SeqClient)
    \/ Return(SeqClient)

SpecIngest == Init /\ [][NextIngest]_vars

----------------------------------------------------------------------------
(* Properties of the claim coordinator *)

\* A command of kind o that has run to its end and not yet returned.
Finished(k, o) == call[k].pc = "done" /\ call[k].op = o

\* The owner the submission had when command c began (NULL: none, or no row).
PreOwner(c) == IF c.pre = <<>> THEN NULL ELSE c.pre[1].claimed_by_ta_id

\* Command c appended exactly one audit row, of this action, actor c.ta and
\* entity c.sid, and left the rows before it alone.
LoggedOne(c, action) ==
    /\ Len(audit) = Len(c.preLog) + 1
    /\ SubSeq(audit, 1, Len(c.preLog)) = c.preLog
    /\ audit[Len(audit)].action = action
    /\ audit[Len(audit)].ta_id = c.ta
    /\ audit[Len(audit)].entity_type = "submission"
    /\ audit[Len(audit)].entity_id = c.sid

\* Command c changed nothing: not its submission, not the audit log.
NoEffect(c) == RowOf(c.sid) = c.pre /\ audit = c.preLog /\ c.wrote = 0 /\ c.logged = 0

\* C1: two concurrent claims on an unclaimed submission by distinct actors never
\* both observe "unclaimed" and both succeed: a claim that read no owner and
\* returned success finds no successful claim of another actor on the same
\* submission logged since it began.
C1_ExactlyOneClaimWins ==
    \A k \in Clients :
        (Finished(k, "claim") /\ call[k].res = "ok" /\ call[k].seen = NULL
            /\ call[k].pre # <<>>)
        => ~ \E i \in (Len(call[k].preLog) + 1)..Len(audit) :
                /\ audit[i].action = "claim"
                /\ audit[i].entity_id = call[k].sid
                /\ audit[i].ta_id # call[k].ta

\* C2: a claim on a submission that another actor owns fails with the
\* already-claimed error and changes neither the submission (owner, claimed_at,
\* status) nor the audit log.
C2_ClaimAgainstOwnerFails ==
    \A k \in Clients :
        (Finished(k, "claim") /\ PreOwner(call[k]) \notin {NULL, call[k].ta})
        => call[k].res = "err_already_claimed" /\ NoEffect(call[k])

C2_Witness ==
    \E k \in Clients :
        /\ Finished(k, "claim") /\ PreOwner(call[k]) \notin {NULL, call[k].ta}
        /\ call[k].res = "err_already_claimed"
        /\ \E i \in 1..Len(audit) :
              audit[i].action = "claim" /\ audit[i].ta_id = PreOwner(call[k])

\* C3: a claim by the actor who already owns the submission succeeds, appends no
\* audit entry and changes no field of the submission, each time it is repeated.
C3_ReclaimIsNoOp ==
    \A k \in Clients :
        (Finished(k, "claim") /\ PreOwner(call[k]) = call[k].ta)
        => call[k].res = "ok" /\ NoEffect(call[k])

C3_Witness ==
    \E k \in Clients :
        /\ Finished(k, "claim") /\ PreOwner(call[k]) = call[k].ta
        /\ call[k].res = "ok"
        /\ call[k].pre[1].status = "in_progress"

\* C4: a claim on a submission without owner succeeds, leaves it with
\* claimed_by = actor, claimed_at set and status in_progress, every other field
\* as it was, and appends exactly one 'claim' audit entry for actor and submission.
C4_ClaimTakesUnowned ==
    \A k \in Clients :
        (Finished(k, "claim") /\ call[k].pre # <<>> /\ PreOwner(call[k]) = NULL)
        => /\ call[k].res = "ok"
           /\ subs[call[k].sid].claimed_at \in 0..now
           /\ subs[call[k].sid] =
                 [call[k].pre[1] EXCEPT !.claimed_by_ta_id = call[k].ta,
                                        !.claimed_at = subs[call[k].sid].claimed_at,
                                        !.status = "in_progress"]
           /\ LoggedOne(call[k], "claim")
           /\ audit[Len(audit)].details = NoDetails

C4_Witness ==
    \E k \in Clients :
        /\ Finished(k, "claim") /\ call[k].pre # <<>> /\ PreOwner(call[k]) = NULL
        /\ call[k].pre[1].status # "in_progress"
        /\ subs[call[k].sid].claimed_by_ta_id = call[k].ta
        /\ subs[call[k].sid].status = "in_progress"

\* C5: a release by an actor other than the owner fails with the not-owner
\* error; owner, claimed_at and status stay and no audit entry is appended.
C5_ReleaseByOtherFails ==
    \A k \in Clients :
        (Finished(k, "release") /\ PreOwner(call[k]) \notin {NULL, call[k].ta})
        => call[k].res = "err_not_owner" /\ NoEffect(call[k])

C5_Witness ==
    \E k \in Clients :
        /\ Finished(k, "release") /\ PreOwner(call[k]) \notin {NULL, call[k].ta}
        /\ call[k].res = "err_not_owner"
        /\ subs[call[k].sid].claimed_by_ta_id = PreOwner(call[k])

\* C6: a release by the owner, or of a submission without owner, succeeds,
\* clears claimed_by and claimed_at, leaves status and every other field, and
\* appends exactly one 'release' audit entry for the actor.
C6_ReleaseClearsOwnerOnly ==
    \A k \in Clients :
        (Finished(k, "release") /\ call[k].pre # <<>>
            /\ PreOwner(call[k]) \in {NULL, call[k].ta})
        => /\ call[k].res = "ok"
           /\ subs[call[k].sid] =
                 [call[k].pre[1] EXCEPT !.claimed_by_ta_id = NULL, !.claimed_at = NullTs]
           /\ LoggedOne(call[k], "release")

C6_Witness ==
    \E k \in Clients :
        /\ Finished(k, "release") /\ call[k].pre # <<>>
        /\ PreOwner(call[k]) = call[k].ta
        /\ call[k].pre[1].status = "in_progress"
        /\ subs[call[k].sid].claimed_by_ta_id = NULL
        /\ subs[call[k].sid].status = "in_progress"

\* C7: the write of a release by X never removes the ownership of another
\* actor Y who is the committed owner when the write executes.
C7_ReleaseKeepsOthersClaim ==
    [][\A k \in Clients :
          (/\ call[k].pc = "release_update"
           /\ call'[k].pc = "release_audit"
           /\ CurrentClaim(call[k].sid) \notin {NULL, call[k].ta})
          => subs'[call[k].sid].claimed_by_ta_id = CurrentClaim(call[k].sid)]_vars

\* C8: force_claim succeeds whatever the owner (none, the actor, another
\* actor); afterwards the actor owns the submission, and the one audit entry
\* appended names as previous owner the owner found before the call.
C8_ForceClaimRecordsPrevious ==
    \A k \in Clients :
        Finished(k, "force_claim")
        => /\ call[k].res = "ok"
           /\ call[k].pre # <<>> => subs[call[k].sid].claimed_by_ta_id = call[k].ta
           /\ LoggedOne(call[k], "force_claim")
           /\ audit[Len(audit)].details = Details("previous_ta", PreOwner(call[k]))

C8_Witness ==
    \E k \in Clients :
        /\ Finished(k, "force_claim")
        /\ PreOwner(call[k]) \notin {NULL, call[k].ta}
        /\ subs[call[k].sid].claimed_by_ta_id = call[k].ta
        /\ audit[Len(audit)].details.v = PreOwner(call[k])

\* C9: in every state a submission has an owner only if its status is in_progress.
C9_OwnerOnlyInProgress ==
    \A s \in DOMAIN subs :
        subs[s].claimed_by_ta_id # NULL => subs[s].status = "in_progress"

\* C10: every change of a submission's status away from one of the five
\* coordinator statuses is unstarted -> in_progress or in_progress -> done,
\* flagged or error.
C10_StatusMachine ==
    [][\A s \in DOMAIN subs :
          (subs[s].status \in ValidStatus /\ subs'[s].status # subs[s].status)
          => \/ subs[s].status = "unstarted" /\ subs'[s].status = "in_progress"
             \/ subs[s].status = "in_progress"
                   /\ subs'[s].status \in {"done", "flagged", "error"}]_vars

----------------------------------------------------------------------------
(* Properties of the audit trail and of the remaining coordinator commands *)

\* The audit rows command c is due on its return: one when it succeeded, none
\* when it failed.
DueEntries(c) == IF c.res = "ok" THEN 1 ELSE 0

\* The same, with the owner's repeated claim set apart: it succeeds and is due none.
DueEntriesReclaimFree(c) ==
    IF c.res = "ok" /\ ~(c.op = "claim" /\ c.seen = c.ta) THEN 1 ELSE 0

\* C11 (as stated): each of claim, release, force_claim, update_status,
\* manual_match and quarantine has appended exactly one audit entry when it
\* returns success and none when it returns failure, a failure of a store
\* statement after a committed one included.
C11_OneEntryPerSuccess ==
    \A k \in Clients :
        (call[k].pc = "done" /\ call[k].op \in CoordinatorOps)
        => call[k].logged = DueEntries(call[k])

\* C11 (amended): the same, except that a claim by the actor who already owns
\* the submission returns success and appends none.  The entries the command
\* appended are in the log, after the ones it found.
C11_OneEntryPerSuccessButReclaim ==
    \A k \in Clients :
        (call[k].pc = "done" /\ call[k].op \in CoordinatorOps)
        => /\ call[k].logged = DueEntriesReclaimFree(call[k])
           /\ Len(audit) >= Len(call[k].preLog) + call[k].logged
           /\ SubSeq(audit, 1, Len(call[k].preLog)) = call[k].preLog

\* A command whose UPDATE changed the row and whose INSERT then failed.
C11_Witness ==
    \E k \in Clients :
        /\ call[k].pc = "done" /\ call[k].op \in CoordinatorOps
        /\ call[k].res = "err_store"
        /\ call[k].wrote = 1
        /\ RowOf(call[k].sid) # call[k].pre
        /\ call[k].logged = 0

\* C12: update_status with a status outside the five valid ones fails with the
\* invalid-status error; no field of the submission changes and no audit entry
\* is appended.
C12_InvalidStatusRejected ==
    \A k \in Clients :
        (Finished(k, "update_status") /\ call[k].arg \notin ValidStatus)
        => call[k].res = "err_invalid_status" /\ NoEffect(call[k])

C12_Witness ==
    \E k \in Clients :
        /\ Finished(k, "update_status") /\ call[k].arg = "bogus"
        /\ call[k].pre # <<>>
        /\ call[k].res = "err_invalid_status"
        /\ subs[call[k].sid].status = call[k].pre[1].status

\* C13: update_status with one of the five valid statuses sets the status to it,
\* changes no other field of the submission (the owner stays), and appends
\* exactly one 'status_change' audit entry whose detail carries the new status
\* and whose actor is the one given, or NULL when none was given.
C13_ValidStatusApplied ==
    \A k \in Clients :
        (Finished(k, "update_status") /\ call[k].arg \in ValidStatus /\ call[k].pre # <<>>)
        => /\ call[k].res = "ok"
           /\ subs[call[k].sid] = [call[k].pre[1] EXCEPT !.status = call[k].arg]
           /\ LoggedOne(call[k], "status_change")
           /\ audit[Len(audit)].details = Details("new_status", call[k].arg)

C13_Witness ==
    \E k \in Clients :
        /\ Finished(k, "update_status") /\ call[k].arg = "done"
        /\ call[k].ta \in Actors
        /\ call[k].pre # <<>>
        /\ call[k].pre[1].status = "in_progress"
        /\ call[k].pre[1].claimed_by_ta_id \notin {NULL, call[k].ta}
        /\ subs[call[k].sid].status = "done"
        /\ subs[call[k].sid].claimed_by_ta_id = call[k].pre[1].claimed_by_ta_id
        /\ audit[Len(audit)].ta_id = call[k].ta

\* C14: manual_match of an existing submission with a student id that is not
\* in the roster of the course of the submission's assignment, or whose
\* assignment resolves to no course, fails with the unknown-student error;
\* the submission (student id, match method, every field) is unchanged and no
\* audit entry is appended.
C14_UnknownStudentRejected ==
    \A k \in Clients :
        (/\ Finished(k, "manual_match") /\ call[k].pre # <<>>
         /\ ~StudentExists(CourseOfSubmission(call[k].sid), call[k].arg))
        => call[k].res = "err_unknown_student" /\ NoEffect(call[k])

\* C15: manual_match of an existing submission with a student id of the roster
\* of its course succeeds whatever ingestion had matched: student_id becomes
\* the given id, the match method 'manual', the confidence 1.0; owner, status
\* and every other field stay; exactly one 'manual_match' audit entry is
\* appended, and it records the student id.
C15_ManualMatchApplied ==
    \A k \in Clients :
        (/\ Finished(k, "manual_match") /\ call[k].pre # <<>>
         /\ StudentExists(CourseOfSubmission(call[k].sid), call[k].arg))
        => /\ call[k].res = "ok"
           /\ subs[call[k].sid] =
                 [call[k].pre[1] EXCEPT !.student_id = call[k].arg,
                                        !.match_method = "manual",
                                        !.match_confidence = "1.0"]
           /\ LoggedOne(call[k], "manual_match")
           /\ audit[Len(audit)].details = Details("student_id", call[k].arg)

C15_Witness ==
    \E k \in Clients :
        /\ Finished(k, "manual_match") /\ call[k].pre # <<>>
        /\ call[k].pre[1].status = "Unmatched"
        /\ call[k].pre[1].student_id = NULL
        /\ subs[call[k].sid].student_id = call[k].arg
        /\ subs[call[k].sid].match_method = "manual"
        /\ subs[call[k].sid].status = "Unmatched"
        /\ audit[Len(audit)].action = "manual_match"

\* C16: quarantine of an existing submission, whatever its status and owner,
\* sets the status to error and the notes to the reason, keeps the row and its
\* other fields, and appends exactly one 'quarantine' audit entry that records
\* the reason.
C16_QuarantineApplied ==
    \A k \in Clients :
        (Finished(k, "quarantine") /\ call[k].pre # <<>>)
        => /\ call[k].res = "ok"
           /\ call[k].sid \in DOMAIN subs
           /\ subs[call[k].sid] =
                 [call[k].pre[1] EXCEPT !.status = "error", !.notes = call[k].arg]
           /\ LoggedOne(call[k], "quarantine")
           /\ audit[Len(audit)].details = Details("reason", call[k].arg)

C16_Witness ==
    \E k \in Clients :
        /\ Finished(k, "quarantine") /\ call[k].pre # <<>>
        /\ call[k].pre[1].status = "in_progress"
        /\ call[k].pre[1].claimed_by_ta_id \notin {NULL, call[k].ta}
        /\ call[k].pre[1].notes = NULL
        /\ subs[call[k].sid].status = "error"
        /\ subs[call[k].sid].notes = "corrupt"

\* C17: no step removes a submission: the set of submission ids only grows,
\* and it grows only in a step of ingestion (process_submissions inserting a row).
C17_LedgerOnlyGrows ==
    [][/\ DOMAIN subs \subseteq DOMAIN subs'
       /\ DOMAIN subs' # DOMAIN subs
             => \E k \in Clients :
                   /\ call[k].op = "ingest" /\ call[k].pc = "ingest_item"
                   /\ call'[k] # call[k]]_vars

\* A submission that was claimed and then quarantined is still in the ledger.
C17_Witness ==
    \E s \in DOMAIN subs :
        /\ subs[s].status = "error"
        /\ \E i, j \in 1..Len(audit) :
              /\ i < j
              /\ audit[i].entity_id = s /\ audit[i].action = "claim"
              /\ audit[j].entity_id = s /\ audit[j].action = "quarantine"

\* C18: the audit trail is append-only: a step leaves every entry written
\* before it in place and unchanged (id, timestamp, actor, action, entity,
\* detail), adds at most one entry at the end, and the ids of the entries
\* strictly increase in the order they were appended.
C18_AuditAppendOnly ==
    [][/\ Len(audit') \in {Len(audit), Len(audit) + 1}
       /\ SubSeq(audit', 1, Len(audit)) = audit
       /\ \A i, j \in 1..Len(audit') : i < j => audit'[i].id < audit'[j].id]_vars

\* A second entry, of another actor, appended behind the first.
C18_Witness ==
    /\ Len(audit) = 2
    /\ audit[1].id < audit[2].id
    /\ audit[1].ta_id # audit[2].ta_id
    /\ \E k \in Clients : /\ call[k].pc = "done" /\ call[k].logged = 1
                          /\ call[k].preLog = <<audit[1]>>
                          /\ audit[2].ta_id = call[k].ta

\* The n (or all, when fewer) most recently appended entries, newest first.
NewestFirst(n) == [i \in 1..LimitRows(n, Len(audit)) |-> audit[Len(audit) + 1 - i]]

\* C19: get_audit(limit), limit >= 0, returns the min(limit, total) most
\* recently appended audit entries in decreasing append order, whatever the
\* timestamps of the entries, equal ones included.
C19_AuditNewestFirst ==
    \A k \in Clients :
        (Finished(k, "get_audit") /\ call[k].arg >= 0)
        => call[k].out = NewestFirst(call[k].arg)

\* The position in the log of the bookmark actor t saved last for assignment a.
LastSaved(t, a) ==
    CHOOSE i \in BookmarkRows(t, a) : \A j \in BookmarkRows(t, a) : j <= i

\* C20: the bookmark read for (actor, assignment) returns the submission and
\* the question index of the bookmark that actor saved last for that
\* assignment, whatever other actors saved and whatever was saved for other
\* assignments; when the actor saved none, it returns question index 0 and the
\* actor's own claimed in-progress submission of that assignment with the
\* latest last_opened_at, or no submission.
C20_BookmarkIsLastSaved ==
    \A k \in Clients :
        Finished(k, "get_last_bookmark")
        => IF BookmarkRows(call[k].ta, call[k].arg) # {}
           THEN call[k].out =
                   <<Bookmark(audit[LastSaved(call[k].ta, call[k].arg)].details.submission_id,
                              audit[LastSaved(call[k].ta, call[k].arg)].details.question_index)>>
           ELSE \E s \in LastOpened(call[k].ta, call[k].arg) :
                   call[k].out = <<Bookmark(s, 0)>>

----------------------------------------------------------------------------
(* Properties of ingestion *)

\* A turn of client k's ingestion loop.
IngestTurnOf(k) == call[k].op = "ingest" /\ call[k].pc = "ingest_item" /\ call'[k] # call[k]

\* The result the turn pushed.
Pushed(k) == call'[k].out[Len(call'[k].out)]

\* The directory the turn's archive is extracted to.
TurnDir(k) == CacheDir(call[k].arg, Head(call[k].todo).digest)

\* Every row of the ledger is still there, unchanged.
RowsKept == \A x \in DOMAIN subs : x \in DOMAIN subs' /\ subs'[x] = subs[x]

\* C21: ingestion never fails as a whole: a call, once made, goes through its
\* paths in order; every turn adds exactly one outcome, for the path at the
\* head of what is left, keeps the outcomes and the rows before it, and the
\* call ends (with its outcomes) exactly when no path is left.
C21_OneOutcomePerPath ==
    [][\A k \in Clients :
          /\ call[k].pc = "idle" /\ call'[k].op = "ingest"
                => call'[k].pc = "ingest_item" /\ call'[k].out = <<>>
          /\ IngestTurnOf(k)
                => /\ Len(call'[k].out) = Len(call[k].out) + 1
                   /\ call'[k].out = Append(call[k].out, Pushed(k))
                   /\ Pushed(k).filename = Head(call[k].todo).filename
                   /\ call'[k].todo = Tail(call[k].todo)
                   /\ call'[k].pc = "done" <=> call'[k].todo = <<>>
                   /\ call'[k].pc = "done" => call'[k].res = "ok"
                   /\ RowsKept]_vars

\* The same for calls whose paths all have a final component, on a disk where
\* the cache directory can be made.
C21_OneOutcomePerNamedPath ==
    [][\A k \in Clients :
          /\ call[k].pc = "idle" /\ call'[k].op = "ingest" /\ call'[k].res # "err_cache_dir"
                => call'[k].pc = "ingest_item" /\ call'[k].out = <<>>
          /\ IngestTurnOf(k) /\ Head(call[k].todo).has_name
                => /\ Len(call'[k].out) = Len(call[k].out) + 1
                   /\ call'[k].out = Append(call[k].out, Pushed(k))
                   /\ Pushed(k).filename = Head(call[k].todo).filename
                   /\ call'[k].todo = Tail(call[k].todo)
                   /\ call'[k].pc = "done" <=> call'[k].todo = <<>>
                   /\ call'[k].pc = "done" => call'[k].res = "ok"
                   /\ RowsKept]_vars

\* The turn pushed a result (it did not end the call in a panic).
PushedOne(k) == IngestTurnOf(k) /\ Len(call'[k].out) = Len(call[k].out) + 1

\* The rows the step added.
NewIds == DOMAIN subs' \ DOMAIN subs

C23_ExtractionKeyedByContent ==
    [][\A k \in Clients :
          PushedOne(k) =>
             LET dir == <<"cache", call[k].arg, Head(call[k].todo).digest>>
             IN  /\ \A x \in NewIds : subs'[x].folder_path = dir
                 /\ Exists(dir) => ~call'[k].ran /\ cache' = cache
                 /\ call'[k].ran => ~Exists(dir)
                 /\ \A n \in cache : n \in cache' \/ IsPrefix(dir, n.at)]_vars

\* The bytes of an archive were ingested again under another file name: the
\* second turn found the directory, did not extract, and inserted a second row
\* pointing to the same directory.
C23_Witness ==
    \E k \in Clients :
        /\ call[k].op = "ingest" /\ ~call[k].ran
        /\ Len(call[k].out) = 2
        /\ call[k].out[1].filename = "12345678_hw1.zip"
        /\ call[k].out[2].filename = "copy_of_hw1.zip"
        /\ call[k].out[2].status = "Unmatched"
        /\ \E x, y \in DOMAIN subs : x # y /\ subs[x].folder_path = subs[y].folder_path

\* C24: a turn of ingestion that does not fail attaches a student only when
\* the candidate is in the roster of the assignment's course, and then the
\* outcome is Matched; in every other case the outcome is Unmatched and the
\* student is null, in the outcome and in the row.
C24_RosterGate ==
    [][\A k \in Clients :
          PushedOne(k) /\ Pushed(k).status # "Error" =>
             LET o == Pushed(k)
                 cid == AssignmentCourse(call[k].arg)
             IN  /\ o.student_id # NULL => cid # NULL /\ StudentExists(cid, o.student_id)
                 /\ o.status = "Matched" <=> o.student_id # NULL
                 /\ o.status \in {"Matched", "Unmatched"}
                 /\ \A x \in NewIds : subs'[x].student_id = o.student_id]_vars

\* The same for assignments that have a course.
C24_RosterGateWithCourse ==
    [][\A k \in Clients :
          PushedOne(k) /\ Pushed(k).status # "Error" /\ AssignmentCourse(call[k].arg) # NULL =>
             LET o == Pushed(k)
                 cid == AssignmentCourse(call[k].arg)
             IN  /\ o.student_id # NULL => StudentExists(cid, o.student_id)
                 /\ o.status = "Matched" <=> o.student_id # NULL
                 /\ o.status \in {"Matched", "Unmatched"}
                 /\ \A x \in NewIds : subs'[x].student_id = o.student_id]_vars

\* Something is at or below path p among files.
ExistsIn(files, p) == \E n \in files : IsPrefix(p, n.at)

\* The archive cannot be extracted to its end.
FailsToExtract(ar) == ~ar.open_ok \/ \E i \in 1 .. Len(ar.entries) : ~ar.entries[i].ok

\* C26: a turn for an archive that can be hashed but not extracted to its end
\* reports Error, inserts no row and leaves no extraction directory behind;
\* this holds each time the archive is ingested, the first and every later.
C26_FailedExtractionLeavesNothing ==
    [][\A k \in Clients :
          PushedOne(k) /\ Head(call[k].todo).hash_ok /\ FailsToExtract(Head(call[k].todo)) =>
             /\ Pushed(k).status = "Error"
             /\ subs' = subs
             /\ ~ExistsIn(cache', TurnDir(k))]_vars

\* The same for archives that cannot be opened as a ZIP at all.
C26_UnopenableLeavesNothing ==
    [][\A k \in Clients :
          PushedOne(k) /\ Head(call[k].todo).hash_ok /\ ~Head(call[k].todo).open_ok =>
             /\ Pushed(k).status = "Error"
             /\ subs' = subs
             /\ ~ExistsIn(cache', TurnDir(k))]_vars

\* A row was inserted for an archive that cannot be extracted to its end.
C26_RowForFailedArchive ==
    \E k \in Clients :
        /\ call[k].op = "ingest" /\ Len(call[k].out) = 2
        /\ call[k].out[1].filename = "torn.zip" /\ call[k].out[1].status = "Error"
        /\ call[k].out[2].filename = "torn.zip" /\ call[k].out[2].status = "Unmatched"

\* The student the roster gate lets through for assignment a, given candidate cand.
Gated(a, cand) ==
    IF AssignmentCourse(a) # NULL /\ ~StudentExists(AssignmentCourse(a), cand) THEN NULL ELSE cand

\* C30: the strategies run in a fixed order and the first success wins.  In a
\* turn that gets as far as matching, a file name with a run of 8 digits
\* makes the first such run the candidate and student_id.txt is not looked
\* for, also when the roster gate then rejects that candidate; student_id.txt
\* is looked for exactly when the file name has no such run.
C30_FilenameBeforeSidecar ==
    [][\A k \in Clients :
          PushedOne(k) /\ Pushed(k).status # "Error" =>
             LET name == Spell[Head(call[k].todo).filename]
             IN  /\ IsMatch(name) =>
                       /\ call'[k].seen = NULL
                       /\ Pushed(k).student_id = Gated(call[k].arg, Unspell(FirstCapture(name)))
                 /\ ~IsMatch(name) => call'[k].seen = "sidecar"]_vars

\* An archive named 99999999_12345678.zip, with a sidecar naming a student of
\* the roster, was ingested for an assignment of that roster's course: the
\* candidate was 99999999, the gate rejected it, the sidecar was not read.
C30_Witness ==
    \E k \in Clients :
        /\ call[k].op = "ingest" /\ call[k].arg = "a1" /\ call[k].out # <<>>
        /\ call[k].seen = NULL
        /\ LET o == call[k].out[Len(call[k].out)]
           IN  /\ o.filename = "99999999_12345678.zip"
               /\ o.status = "Unmatched" /\ o.student_id = NULL
        /\ \E n \in cache :
              /\ n.at = <<"cache", "a1", "d5", "student_id.txt">>
              /\ Trimmed(n.text) = "12345678"
              /\ StudentExists("c1", Trimmed(n.text))

\* The bytes held by the files in set N.
RECURSIVE Bytes(_)
Bytes(N) ==
    IF N = {} THEN 0
    ELSE LET n == CHOOSE x \in N : TRUE IN n.size + Bytes(N \ {n})

\* The bytes unpacked at or below directory dir.
Unpacked(files, dir) == Bytes({n \in files : IsPrefix(dir, n.at) /\ n.kind = "file"})

\* The unpacked size the archive's entries add up to.
RECURSIVE Declared(_)
Declared(es) == IF es = <<>> THEN 0 ELSE Head(es).size + Declared(Tail(es))

OverLimit(size, packed) == size > BombRatio * packed \/ size > SizeCeiling

\* C27: extraction stops as soon as the unpacked size passes 100 times the
\* packed size or the absolute ceiling: after every turn of ingestion the
\* archive's directory holds no more than that, and an archive whose entries
\* add up to more is reported as Error.
C27_UnpackedSizeBounded ==
    [][\A k \in Clients :
          PushedOne(k) /\ Head(call[k].todo).hash_ok =>
             LET ar == Head(call[k].todo)
             IN  /\ ~OverLimit(Unpacked(cache', TurnDir(k)), ar.packed)
                 /\ ar.open_ok /\ OverLimit(Declared(ar.entries), ar.packed)
                       => Pushed(k).status = "Error"]_vars

\* The entry name is an absolute path.
IsAbsolute(name) == name # <<>> /\ name[1] = "/"

\* The entry name has a parent-directory segment.
HasParentSegment(name) == \E i \in 1 .. Len(name) : name[i] = ".."

\* The entry name leaves the directory it is joined to: at some point it has
\* gone up more often than down.
LeavesDir(name) ==
    \E i \in 1 .. Len(name) :
        Cardinality({j \in 1 .. i : name[j] = ".."})
            > Cardinality({j \in 1 .. i : name[j] \notin {"..", "."}})

\* A turn that extracted an archive all of whose entries can be read.
ExtractedAll(k) ==
    /\ PushedOne(k) /\ call'[k].ran
    /\ Head(call[k].todo).hash_ok /\ ~FailsToExtract(Head(call[k].todo))

\* What the step created for an entry of this name in directory dir.
CreatedFor(dir, name) == {n \in cache' \ cache : n.at = Resolve(Join(dir, name))}

\* C29 as stated: extraction drops every entry whose name is absolute or has a
\* parent-directory segment, extracts the others, and creates nothing outside
\* the archive's directory.
C29_ParentSegmentsDropped ==
    [][\A k \in Clients :
          ExtractedAll(k) =>
             LET es == Head(call[k].todo).entries
             IN  /\ \A n \in cache' \ cache : IsPrefix(TurnDir(k), n.at)
                 /\ \A i \in 1 .. Len(es) :
                       IF IsAbsolute(es[i].name) \/ HasParentSegment(es[i].name)
                       THEN CreatedFor(TurnDir(k), es[i].name) = {}
                       ELSE CreatedFor(TurnDir(k), es[i].name) # {}]_vars

\* C29, amended: extraction drops every entry whose name is absolute or leads
\* out of the archive's directory, extracts the others - also a name whose
\* parent-directory segments stay inside the directory, at the place the name
\* resolves to - and creates nothing outside the archive's directory.
C29_EscapingEntriesDropped ==
    [][\A k \in Clients :
          ExtractedAll(k) =>
             LET es == Head(call[k].todo).entries
             IN  /\ \A n \in cache' \ cache : IsPrefix(TurnDir(k), n.at)
                 /\ \A i \in 1 .. Len(es) :
                       IF IsAbsolute(es[i].name) \/ LeavesDir(es[i].name)
                       THEN CreatedFor(TurnDir(k), es[i].name) = {}
                       ELSE CreatedFor(TurnDir(k), es[i].name) # {}]_vars

\* slip.zip was extracted: the entry src/../hw1.txt is in the directory as
\* hw1.txt, the entry after the dropped ones is there, and nothing else is.
C29_Witness ==
    /\ \E n \in cache : n.at = <<"cache", "a1", "d8", "hw1.txt">>
    /\ \E n \in cache : n.at = <<"cache", "a1", "d8", "docs", "notes.txt">>
    /\ \A n \in cache : n.at[Len(n.at)] \notin {"evil.txt", "back.txt"}
    /\ \E x \in DOMAIN subs : subs[x].folder_path = <<"cache", "a1", "d8">>

\* Client k's call finds the directory of its archive and goes on to matching
\* without extracting.
FindsDir(k) ==
    /\ call[k].op = "ingest" /\ call[k].pc = "ingest_check"
    /\ call'[k].pc = "ingest_match" /\ ~call'[k].ran

\* What a whole extraction of archive ar puts into directory dir.
FullContent(ar, dir) == ExtractEntries({}, dir, ar.entries).files

\* C25: with two ingestions running at once, a call that finds the directory
\* cache/A/D of its archive finds the archive's whole content there.
C25_FoundDirIsComplete ==
    [][\A k \in Clients :
          FindsDir(k) /\ ~FailsToExtract(Head(call[k].todo)) =>
             {n \in cache : IsPrefix(CacheDir(call[k].arg, Head(call[k].todo).digest), n.at)}
                = FullContent(Head(call[k].todo),
                              CacheDir(call[k].arg, Head(call[k].todo).digest))]_vars

\* Two calls ingested late.zip for the same assignment at once: the one that
\* extracted matched the student by the sidecar, the other found the
\* directory before the sidecar was written and left the submission unmatched.
C25_SameArchiveTwoOutcomes ==
    \E x, y \in DOMAIN subs :
        /\ subs[x].folder_path = <<"cache", "a1", "d4">>
        /\ subs[y].folder_path = <<"cache", "a1", "d4">>
        /\ subs[x].status = "Matched" /\ subs[x].student_id = "12345678"
        /\ subs[y].status = "Unmatched" /\ subs[y].student_id = NULL

----------------------------------------------------------------------------
(* Properties of validate_zip *)

\* Numbers that do not wrap: one digit more than a u64.
Wide(a) == a \o <<0>>
WideAdd(a, b) == SubSeq(AddFrom(a, b, 1, 0), 1, Len(a))

\* The regular files among the entries, and the size they declare together.
RegularFiles(es) == {i \in 1 .. Len(es) : es[i].kind = "file"}
RECURSIVE DeclaredSize(_)
DeclaredSize(es) ==
    IF es = <<>> THEN Wide(U64(0))
    ELSE WideAdd(DeclaredSize(Tail(es)), Wide(Head(es).size))

\* The archive can be read: it is there, opens, is a ZIP with a readable size,
\* and every entry of its directory can be read.
Readable(f) ==
    /\ f.exists /\ f.opens /\ f.is_zip /\ f.meta_ok
    /\ \A i \in 1 .. Len(f.entries) : f.entries[i].raw_ok

\* The archive is missing, cannot be opened, or is corrupt.
Damaged(f) ==
    \/ ~f.exists \/ ~f.opens \/ ~f.is_zip
    \/ \E i \in 1 .. Len(f.entries) : ~f.entries[i].raw_ok

\* The declared size is over 100 times the packed size or over the ceiling.
DeclaredOverLimit(f) ==
    \/ Greater(DeclaredSize(f.entries), Wide(U64(BombRatio * f.packed)))
    \/ Greater(DeclaredSize(f.entries), Wide(U64(SizeCeiling)))

\* What C28 says of the result r of validate_zip on file f.
ValidationAsStated(f, r) ==
    /\ Readable(f) =>
          /\ r.is_zip_bomb = DeclaredOverLimit(f)
          /\ r.is_valid = ~DeclaredOverLimit(f)
          /\ ~DeclaredOverLimit(f) =>
                /\ r.file_count = Cardinality(RegularFiles(f.entries))
                /\ Wide(r.total_size) = DeclaredSize(f.entries)
    /\ Damaged(f) => ~r.is_valid /\ r.error_message # NULL

\* C28: validate_zip never ends in a thrown error; on a readable archive it
\* reports a suspected bomb, and is_valid false, exactly when the declared
\* size is over 100 times the packed size or over the ceiling, and otherwise
\* is_valid true with the number of regular files and the sum of their
\* declared sizes; a missing, unopenable or corrupt archive is reported with
\* is_valid false and a message.
C28_ValidationReport ==
    \A k \in Clients :
        call[k].op = "validate" /\ call[k].pc = "done" =>
            /\ call[k].res = "ok"
            /\ ValidationAsStated(Head(call[k].todo), call[k].out[1])

\* The same for archives that hold nothing but readable regular files declaring
\* less than 2^48 bytes each.
C28_ValidationReportFilesOnly ==
    \A k \in Clients :
        /\ call[k].op = "validate" /\ call[k].pc = "done"
        /\ \A i \in 1 .. Len(Head(call[k].todo).entries) :
              LET e == Head(call[k].todo).entries[i]
              IN  e.kind = "file" /\ e.raw_ok /\ e.size[U64Digits] = 0
        => /\ call[k].res = "ok"
           /\ ValidationAsStated(Head(call[k].todo), call[k].out[1])

\* A readable archive of one regular file and one directory, below both limits,
\* is reported valid with file_count 2.
C28_DirectoryCounted ==
    \E k \in Clients :
        /\ call[k].op = "validate" /\ call[k].pc = "done" /\ call[k].res = "ok"
        /\ Readable(Head(call[k].todo))
        /\ Cardinality(RegularFiles(Head(call[k].todo).entries)) = 1
        /\ call[k].out[1].is_valid /\ call[k].out[1].file_count = 2

\* A readable archive whose two entries declare 2^63 bytes each is reported
\* valid, with total_size 0.
C28_WrappedBombValid ==
    \E k \in Clients :
        /\ call[k].op = "validate" /\ call[k].pc = "done" /\ call[k].res = "ok"
        /\ Readable(Head(call[k].todo))
        /\ DeclaredOverLimit(Head(call[k].todo))
        /\ call[k].out[1].is_valid /\ call[k].out[1].total_size = U64(0)

----------------------------------------------------------------------------
(* Properties of the sidecar, the statuses, and the ledger under interleaving *)

\* The sidecar the turn's archive has in its directory after the turn.
SidecarOf(k) == {n \in cache' : n.at = SidecarPath(TurnDir(k)) /\ n.kind = "file"}

\* The first run of 8 digits in the trimmed text, if there is one.
FirstRunOf(text) ==
    IF IsMatch(Trim(Spell[text])) THEN Unspell(FirstCapture(Trim(Spell[text]))) ELSE NULL

\* C31: when the file name has no run of 8 digits and student_id.txt is in the
\* archive's directory, the candidate is the first run of 8 digits of the
\* trimmed contents of that file, whatever else the contents hold: the student
\* of the outcome is that run when the roster gate lets it through.
C31_SidecarFirstRun ==
    [][\A k \in Clients :
          /\ PushedOne(k) /\ Pushed(k).status # "Error"
          /\ ~IsMatch(Spell[Head(call[k].todo).filename])
          => \A n \in SidecarOf(k) :
                Pushed(k).student_id = Gated(call[k].arg, FirstRunOf(n.text))]_vars

\* The same for sidecars whose trimmed contents are nothing but the id.
C31_SidecarBareId ==
    [][\A k \in Clients :
          /\ PushedOne(k) /\ Pushed(k).status # "Error"
          /\ ~IsMatch(Spell[Head(call[k].todo).filename])
          => \A n \in SidecarOf(k) :
                Len(Trim(Spell[n.text])) = IdLen
                   => Pushed(k).student_id = Gated(call[k].arg, FirstRunOf(n.text))]_vars

\* C32: the status of every submission of the ledger is one of the five
\* statuses of the coordinator, from the moment ingestion inserts the row.
C32_StatusIsCoordinatorStatus ==
    \A s \in DOMAIN subs : subs[s].status \in ValidStatus

\* The statuses ingestion writes.
IngestStatus == {"Matched", "Unmatched"}

\* Every status is one of the coordinator's or one of ingestion's, and a step
\* that changes a row's status changes it to one of the coordinator's.
C32_StatusChangesAreValid ==
    [][\A s \in DOMAIN subs :
          /\ subs[s].status \in ValidStatus \cup IngestStatus
          /\ s \in DOMAIN subs' /\ subs'[s].status # subs[s].status
                => subs'[s].status \in ValidStatus]_vars

\* No call is under way.
Quiescent == \A k \in Clients : call[k].pc = "idle"

\* The audit entries that speak of the ownership of submission s.
OwnershipEntries(s) ==
    {i \in 1 .. Len(audit) :
        /\ audit[i].entity_id = s /\ audit[i].entity_type = "submission"
        /\ audit[i].action \in {"claim", "force_claim", "release"}}

\* The owner of s according to the audit log: the actor of the latest claim or
\* force_claim if no release follows it.
LogOwner(s) ==
    IF OwnershipEntries(s) = {} THEN NULL
    ELSE LET last == CHOOSE i \in OwnershipEntries(s) : \A j \in OwnershipEntries(s) : j <= i
         IN  IF audit[last].action = "release" THEN NULL ELSE audit[last].ta_id

\* C33: once all calls have completed, the owner of every submission in the
\* ledger is the owner according to the audit log.
C33_LogAndLedgerAgree ==
    Quiescent => \A s \in DOMAIN subs : subs[s].claimed_by_ta_id = LogOwner(s)

\* C34: the previous owner in the audit entry of a force_claim is the owner
\* its UPDATE wrote over (call.over: the committed owner when the UPDATE ran).
C34_ForceClaimLogsOverwrittenOwner ==
    \A k \in Clients :
        Finished(k, "force_claim") /\ call[k].res = "ok" /\ call[k].sid \in DOMAIN subs
        => /\ audit # <<>>
           /\ audit[Len(audit)].action = "force_claim"
           /\ audit[Len(audit)].entity_id = call[k].sid
           /\ audit[Len(audit)].ta_id = call[k].ta
           /\ audit[Len(audit)].details = Details("previous_ta", call[k].over)

\* The commands C35 speaks of.
LedgerOps == {"claim", "release", "force_claim", "update_status", "quarantine"}

\* C35: claim, release, force_claim, update_status and quarantine called with
\* an id that is not in the ledger end in an error, change no row and append
\* no audit entry.
C35_UnknownIdRejected ==
    \A k \in Clients :
        call[k].pc = "done" /\ call[k].op \in LedgerOps /\ call[k].sid = NoSuchId
        => /\ call[k].res # "ok"
           /\ audit = call[k].preLog
           /\ NoSuchId \notin DOMAIN subs

\* The part that concerns the ledger: such a call creates no row and changes none.
C35_UnknownIdKeepsLedger ==
    [][\A k \in Clients :
          call[k].op \in LedgerOps /\ call[k].sid = NoSuchId /\ call'[k] # call[k]
          => subs' = subs]_vars

\* C36: every submission whose status is in_progress has an owner.
C36_InProgressHasOwner ==
    \A s \in DOMAIN subs :
        subs[s].status = "in_progress" => subs[s].claimed_by_ta_id # NULL

\* A claim that moves a submission to in_progress gives it its owner in the
\* same write.
C36_ClaimSetsStatusAndOwner ==
    [][\A k \in Clients :
          call[k].pc = "claim_update" /\ call'[k] # call[k] /\ call[k].sid \in DOMAIN subs
          => /\ subs'[call[k].sid].status = "in_progress"
             /\ subs'[call[k].sid].claimed_by_ta_id = call[k].ta]_vars

\* The commands that write the claim columns.
ClaimOps == {"claim", "force_claim", "release"}

\* C37: in every state a step leads to, claimed_at is null exactly when
\* claimed_by is null, for every submission; and the two columns of a row are
\* changed by no step other than a step of claim, force_claim or release on
\* that row - not by update_status, manual_match, quarantine, touch, the
\* bookmark commands or ingestion, which inserts rows with both null.
C37_ClaimedAtIffClaimedBy ==
    [][\A s \in DOMAIN subs' :
          /\ subs'[s].claimed_at = NullTs <=> subs'[s].claimed_by_ta_id = NULL
          /\ s \notin DOMAIN subs => subs'[s].claimed_by_ta_id = NULL
          /\ /\ s \in DOMAIN subs
             /\ \/ subs'[s].claimed_at # subs[s].claimed_at
                \/ subs'[s].claimed_by_ta_id # subs[s].claimed_by_ta_id
             => \E k \in Clients :
                   call[k].op \in ClaimOps /\ call[k].sid = s /\ call'[k] # call[k]]_vars

\* A submission was claimed, touched while it was claimed, and released: the
\* owner and the time of the claim are both null again.
C37_Witness ==
    \E s \in DOMAIN subs :
        /\ subs[s].claimed_by_ta_id = NULL /\ subs[s].claimed_at = NullTs
        /\ subs[s].last_opened_at # NullTs
        /\ \E i, j \in 1 .. Len(audit) :
              /\ i < j
              /\ audit[i].action = "claim" /\ audit[i].entity_id = s
              /\ audit[j].action = "release" /\ audit[j].entity_id = s

----------------------------------------------------------------------------
(* get_unmatched_submissions(assignment_id)                                 *)

\* WHERE assignment_id = ? AND student_id IS NULL: the ids of the rows selected.
UnmatchedQueue(a) ==
    {s \in DOMAIN subs : subs[s].assignment_id = a /\ subs[s].student_id = NULL}

\* A row as UnmatchedSubmission: id, folder_path, and NULL as
\* suggested_student_id.  source_zip_path and received_at are columns no
\* statement of the program writes; they carry nothing and are left out.
UnmatchedSubmission(s) ==
    [id |-> s, folder_path |-> subs[s].folder_path, suggested_student_id |-> NULL]

\* ORDER BY received_at ASC over a column no statement writes: the rows come
\* in an order the program does not fix.
QueueOrders(a) ==
    {p \in [1 .. Cardinality(UnmatchedQueue(a)) -> UnmatchedQueue(a)] :
        \A i, j \in DOMAIN p : i # j => p[i] # p[j]}

\* fetch_all succeeds: the rows selected, each decoded.
GetUnmatched(k) ==
    /\ call[k].pc = "idle"
    /\ \E a \in AssignmentIds :
          \E p \in QueueOrders(a) :
             Step(k, [Enter("get_unmatched", NULL, NULL, a) EXCEPT
                         !.pc = "done", !.res = "ok",
                         !.out = [i \in DOMAIN p |-> UnmatchedSubmission(p[i])]])
    /\ UNCHANGED <<subs, audit, cache, now>>

\* source_zip_path and received_at are decoded as String, not Option<String>:
\* where the table leaves them NULL in a row ingestion inserted, decoding a
\* selected row fails and the command returns the error (map_err ... ?).
\* Whether it does depends on the column defaults of the table.
GetUnmatchedFails(k) ==
    /\ call[k].pc = "idle"
    /\ \E a \in AssignmentIds :
          /\ UnmatchedQueue(a) # {}
          /\ Step(k, [Enter("get_unmatched", NULL, NULL, a) EXCEPT
                         !.pc = "done", !.res = "err_decode"])
    /\ UNCHANGED <<subs, audit, cache, now>>

\* One command at a time, the read of the unmatched queue among them.
NextQueue ==
    \/ Command(SeqClient)
    \/ GetUnmatched(SeqClient)
    \/ GetUnmatchedFails(SeqClient)
    \/ Tick

SpecQueue == Init /\ [][NextQueue]_vars

----------------------------------------------------------------------------
(* Properties of the unmatched queue *)

\* What a finished read of the queue handed back: the ids of its rows.
Listed(k) == {call[k].out[i].id : i \in DOMAIN call[k].out}

\* A read of the queue that succeeded lists exactly the submissions of the
\* assignment whose student_id is null, each once, whatever their status.
QueueIsNullStudents ==
    \A k \in Clients :
        call[k].pc = "done" /\ call[k].op = "get_unmatched" /\ call[k].res = "ok"
        => /\ Listed(k) = {s \in DOMAIN subs : /\ subs[s].assignment_id = call[k].arg
                                               /\ subs[s].student_id = NULL}
           /\ Len(call[k].out) = Cardinality(Listed(k))

\* A successful manual_match takes the submission out of the queue of its
\* assignment; no step puts a submission that has a student back into a queue;
\* a step of quarantine leaves every queue as it was.
QueueDrains ==
    /\ \A k \in Clients :
          call[k].pc = "match_update" /\ call'[k] # call[k]
          => \A a \in AssignmentIds : call[k].sid \notin UnmatchedQueue(a)'
    /\ \A s \in DOMAIN subs, a \in AssignmentIds :
          s \notin UnmatchedQueue(a) => s \notin UnmatchedQueue(a)'
    /\ \A k \in Clients :
          call[k].op = "quarantine" /\ call'[k] # call[k]
          => \A a \in AssignmentIds : UnmatchedQueue(a)' = UnmatchedQueue(a)

\* A turn of ingestion that pushed an Unmatched outcome, for an assignment of
\* the set A, put its new row in the queue of that assignment.
UnmatchedEnqueued(A) ==
    \A k \in Clients :
        /\ PushedOne(k)
        /\ Pushed(k).status = "Unmatched"
        /\ call[k].arg \in A
        => /\ NewIds # {}
           /\ NewIds \subseteq UnmatchedQueue(call[k].arg)'

\* C38: the unmatched queue of an assignment is exactly the set of its
\* submissions whose student_id is null, whatever their status: a submission
\* ingested as Unmatched is in the queue, a successful manual_match removes it
\* and it never re-enters, and quarantine alone does not remove it.
C38_UnmatchedQueue ==
    [][/\ QueueIsNullStudents'
       /\ QueueDrains
       /\ UnmatchedEnqueued(AssignmentIds)]_vars

\* The same, with ingestion looked at only for assignments that have a course.
C38_UnmatchedQueueWithCourse ==
    [][/\ QueueIsNullStudents'
       /\ QueueDrains
       /\ UnmatchedEnqueued({a \in AssignmentIds : AssignmentCourse(a) # NULL})]_vars

\* A submission ingested as Unmatched with no student was quarantined and is
\* listed in the queue of its assignment.
C38_QuarantinedStillQueued ==
    \E k \in Clients :
        /\ call[k].pc = "done" /\ call[k].op = "get_unmatched" /\ call[k].res = "ok"
        /\ \E s \in Listed(k) : subs[s].status = "error"

\* A submission was matched by hand and its queue, read afterwards, is empty.
C38_MatchedLeftQueue ==
    \E k \in Clients :
        /\ call[k].pc = "done" /\ call[k].op = "get_unmatched" /\ call[k].res = "ok"
        /\ call[k].out = <<>>
        /\ \E s \in DOMAIN subs :
              subs[s].assignment_id = call[k].arg /\ subs[s].match_method = "manual"

====
